---- MODULE Spec2Model ----
(***************************************************************************)
(* A model of the RasPike serial connector of etrobo-python                *)
(* (src/etrobo_python/backends/raspyke/connector.py): the process-wide     *)
(* connection handle, connect_spike / _Connector.run, the receiver thread  *)
(* (_run_receiver, _recv_report, base64 decoding, _is_valid_parity), the   *)
(* handler thread (_run_handler) and send_command.                         *)
(*                                                                         *)
(* Bytes are integers 0..255, byte strings are sequences (index 1 of the   *)
(* model is offset 0 of the code).                                         *)
(***************************************************************************)
EXTENDS Integers, Sequences, FiniteSets, TLC

(***************************************************************************)
(* Bounds of the model (not program constants).                            *)
(***************************************************************************)
\* The clock runs over 0..horizon; times beyond the horizon are not
\* distinguished.  The horizon of the timing specification (SpecTime):
MaxTime == 6
\* the horizon of the specifications whose inputs are the frames (Spec, FairSpec)
FrameHorizon == 2
\* the horizon of the two-caller specification (SpecConc)
ConcHorizon == 2
\* the reads that return data before the channel falls silent, in SpecConc
ConcReads == 2
\* the frames accessors may write before the calling code stops calling them
MaxSent == 1
\* the horizon of the specifications with accessor calls
FacadeHorizon == 1
\* reads of one _recv_report call that are followed
MaxReads == 4

(***************************************************************************)
(* Program constants.                                                      *)
(***************************************************************************)
BufferLen == 32
RecvLen == 27
SendLen == 7
Magic0 == 102
Magic1 == 51
SendMagic == 127
PrefixLen == 21

(***************************************************************************)
(* Bit operations on non-negative integers, bit by bit.                    *)
(***************************************************************************)
RECURSIVE BitOr(_, _)
BitOr(a, b) ==
    IF a = 0 THEN b
    ELSE IF b = 0 THEN a
    ELSE (IF (a % 2 = 1) \/ (b % 2 = 1) THEN 1 ELSE 0) + 2 * BitOr(a \div 2, b \div 2)

RECURSIVE BitXor(_, _)
BitXor(a, b) ==
    IF a = 0 THEN b
    ELSE IF b = 0 THEN a
    ELSE (IF (a % 2) # (b % 2) THEN 1 ELSE 0) + 2 * BitXor(a \div 2, b \div 2)

Min(a, b) == IF a < b THEN a ELSE b
Max(a, b) == IF a > b THEN a ELSE b

\* Python's seq[lo:hi] on a sequence (0-based, clipped; lo, hi >= 0)
Slice(s, lo, hi) == SubSeq(s, Min(lo, Len(s)) + 1, Min(hi, Len(s)))

\* Python's seq[lo:hi] = new on a bytearray: the slice is replaced, and the
\* array shrinks or grows when new has another length than the slice
SliceAssign(s, lo, hi, new) ==
    LET l == Min(lo, Len(s))
        h == Max(l, Min(hi, Len(s)))
    IN  SubSeq(s, 1, l) \o new \o SubSeq(s, h + 1, Len(s))

Zeros(n) == [i \in 1..n |-> 0]

(***************************************************************************)
(* _is_valid_parity (connector.py:205-212).  The result is "raise" when    *)
(* buffer[1] does not exist (IndexError).                                  *)
(***************************************************************************)
RECURSIVE FoldOr(_, _)
FoldOr(s, acc) == IF s = <<>> THEN acc ELSE FoldOr(Tail(s), BitOr(acc, Head(s)))

ParityOf(buffer) ==
    LET parity == FoldOr(Slice(buffer, 2, Len(buffer)), 0)
    IN  BitOr(parity, parity \div 16) % 16

IsValidParity(buffer) ==
    IF Len(buffer) < 2 THEN "raise"
    ELSE IF buffer[2] % 16 = ParityOf(buffer) THEN "valid" ELSE "invalid"

(***************************************************************************)
(* The parity the protocol documents: the XOR of the bytes from offset 2   *)
(* on, folded to 4 bits (high nibble XOR low nibble).                      *)
(***************************************************************************)
RECURSIVE FoldXor(_, _)
FoldXor(s, acc) == IF s = <<>> THEN acc ELSE FoldXor(Tail(s), BitXor(acc, Head(s)))

XorNibble(buffer) ==
    LET x == FoldXor(Slice(buffer, 2, Len(buffer)), 0)
    IN  BitXor(x, x \div 16) % 16

(***************************************************************************)
(* base64.b64decode (binascii.a2b_base64, not strict), connector.py:146.   *)
(* B64Value is the alphabet table; 64 marks a byte outside the alphabet.   *)
(***************************************************************************)
B64Value(ch) ==
    IF 65 <= ch /\ ch <= 90 THEN ch - 65
    ELSE IF 97 <= ch /\ ch <= 122 THEN ch - 97 + 26
    ELSE IF 48 <= ch /\ ch <= 57 THEN ch - 48 + 52
    ELSE IF ch = 43 THEN 62
    ELSE IF ch = 47 THEN 63
    ELSE 64

\* one character of the decoder's loop; st = [q: quad_pos, left: leftchar,
\* pads, out, stop: the pad sequence ended the input]
B64Step(st, ch) ==
    IF st.stop THEN st
    ELSE IF ch = 61 THEN
        IF st.q >= 2 /\ st.q + st.pads + 1 >= 4
        THEN [st EXCEPT !.pads = st.pads + 1, !.stop = TRUE, !.q = 0]
        ELSE IF st.q >= 2 THEN [st EXCEPT !.pads = st.pads + 1] ELSE st
    ELSE IF B64Value(ch) >= 64 THEN st
    ELSE LET v == B64Value(ch) IN
        CASE st.q = 0 -> [st EXCEPT !.q = 1, !.left = v, !.pads = 0]
          [] st.q = 1 -> [st EXCEPT !.q = 2, !.pads = 0, !.left = v % 16,
                              !.out = Append(st.out, st.left * 4 + v \div 16)]
          [] st.q = 2 -> [st EXCEPT !.q = 3, !.pads = 0, !.left = v % 4,
                              !.out = Append(st.out, st.left * 16 + v \div 4)]
          [] st.q = 3 -> [st EXCEPT !.q = 0, !.pads = 0, !.left = 0,
                              !.out = Append(st.out, st.left * 64 + v)]

RECURSIVE B64Run(_, _)
B64Run(st, s) == IF s = <<>> THEN st ELSE B64Run(B64Step(st, Head(s)), Tail(s))

\* [ok |-> FALSE] is binascii.Error, which _run_receiver does not catch
B64Decode(s) ==
    LET st == B64Run([q |-> 0, left |-> 0, pads |-> 0, out |-> <<>>, stop |-> FALSE], s)
    IN  IF st.q # 0 THEN [ok |-> FALSE, data |-> <<>>]
        ELSE [ok |-> TRUE, data |-> st.out]

(***************************************************************************)
(* _recv_report (connector.py:167-203), in three parts: the marker search  *)
(* on the first read, the alphabet filter, and the copy into the buffer.   *)
(***************************************************************************)
\* bytes.find(value, start): the 0-based offset of the first occurrence at
\* or after start, -1 when there is none
RECURSIVE Find(_, _, _)
Find(buf, value, start) ==
    IF start >= Len(buf) THEN -1
    ELSE IF buf[start + 1] = value THEN start
    ELSE Find(buf, value, start + 1)

RECURSIVE FindMarker(_, _)
\* mutant: only a complete marker counts, a trailing 0x66 does not
FindMarkerStrict(buf, offset) ==
    LET hits == {i \in offset..(Len(buf) - 2) : buf[i + 1] = Magic0 /\ buf[i + 2] = Magic1}
    IN  IF hits = {} THEN -1 ELSE CHOOSE i \in hits : \A j \in hits : i <= j

\* the while loop of lines 178-182: -1 is `return False`
FindMarker(buf, offset) ==
    IF offset < Len(buf) - 1 /\ (buf[offset + 1] # Magic0 \/ buf[offset + 2] # Magic1)
    THEN LET o == Find(buf, Magic0, offset + 1)
         IN  IF o < 0 THEN -1 ELSE FindMarker(buf, o)
    ELSE offset

\* mutant: every byte passes the filter
AnyByte(v) == v \in 0..255

\* the test of lines 187 and 199
IsAlphabet(v) ==
    \/ 47 <= v /\ v <= 57
    \/ 65 <= v /\ v <= 90
    \/ 97 <= v /\ v <= 122
    \/ v \in {43, 61}

Filtered(bytes) == SelectSeq(bytes, IsAlphabet)

\* buffer[size] = v; size += 1 for every byte of `bytes` that passes the filter
CopyInto(buffer, size, bytes) ==
    LET f == Filtered(bytes)
    IN  [i \in 1..Len(buffer) |->
            IF size < i /\ i <= size + Len(f) THEN f[i - size] ELSE buffer[i]]

(***************************************************************************)
(* The effect of one decoded frame that passed the parity check on         *)
(* recv_data (connector.py:154-159).  "raise" is the IndexError of         *)
(* data[21] on a payload of fewer than 22 bytes, raised after the first    *)
(* slice assignment was made.                                              *)
(***************************************************************************)
ApplyPrefix(recv, data) == SliceAssign(recv, 0, PrefixLen, Slice(data, 0, PrefixLen))

ApplySlot(recv, data) ==
    IF 0 <= data[PrefixLen + 1] /\ data[PrefixLen + 1] < 3
    THEN LET offset == PrefixLen + data[PrefixLen + 1] * 2
         IN  SliceAssign(recv, offset, offset + 2, Slice(data, PrefixLen + 1, Len(data)))
    ELSE recv

ApplyFrame(recv, data) ==
    IF Len(data) <= PrefixLen
    THEN [raise |-> TRUE, recv |-> ApplyPrefix(recv, data)]
    ELSE [raise |-> FALSE, recv |-> ApplySlot(ApplyPrefix(recv, data), data)]

(***************************************************************************)
(* send_command (connector.py:243-254): the 7 bytes written to the serial  *)
(* channel.  The value is masked to 32 bits and written big-endian.        *)
(***************************************************************************)
\* int.to_bytes(value & 0xffffffff, 4, 'big') for a signed 32-bit value: w is
\* the low 31 bits, and the sign is bit 7 of the first byte
\* mutant: the four bytes in little-endian order
ToBytes4Little(value) ==
    LET w == IF value < 0 THEN (value + 2147483647) + 1 ELSE value
    IN  << w % 256, (w \div 256) % 256, (w \div 65536) % 256,
           w \div 16777216 + (IF value < 0 THEN 128 ELSE 0) >>

ToBytes4(value) ==
    LET w == IF value < 0 THEN (value + 2147483647) + 1 ELSE value
    IN  << w \div 16777216 + (IF value < 0 THEN 128 ELSE 0),
           (w \div 65536) % 256, (w \div 256) % 256, w % 256 >>

SendParity(body) == FoldOr(body, 0)

CommandFrame(command, value) ==
    LET body == <<command>> \o ToBytes4(value)
    IN  <<SendMagic, SendParity(body)>> \o body

(***************************************************************************)
(* The accessors of Hub, Motor, ColorSensor, SonarSensor and GyroSensor    *)
(* (connector.py:257-365).  A reading is computed from recv_data; a        *)
(* command is the pair <<command, value>> handed to send_command.          *)
(***************************************************************************)
\* int.from_bytes(s, 'big')
RECURSIVE FromBytes(_)
FromBytes(s) ==
    IF s = <<>> THEN 0 ELSE FromBytes(SubSeq(s, 1, Len(s) - 1)) * 256 + s[Len(s)]

\* int.from_bytes(s, 'big', signed=True) for the 3 bytes of a motor count
FromBytesSigned(s) ==
    LET v == FromBytes(s)
    IN  IF v >= 8388608 THEN v - 16777216 ELSE v

\* Hub, lines 261-278
get_time(recv) == FromBytes(Slice(recv, 2, 5))
get_battery_voltage(recv) == FromBytes(Slice(recv, 23, 25))
get_battery_current(recv) == FromBytes(Slice(recv, 25, 27))
get_button_pressed(recv) == FromBytes(Slice(recv, 21, 23))
set_led(code) == <<3, code>>
set_speaker_volume(volume) == <<2, volume>>
\* line 271: (frequency & 0xffff) << 16 | duration & 0xffff, written as the
\* signed 32-bit integer with the same four bytes
play_speaker_tone(frequency, duration) ==
    LET f == frequency % 65536
        d == duration % 65536
    IN  <<1, (IF f >= 32768 THEN f - 65536 ELSE f) * 65536 + d>>

\* Motor, lines 285-301
get_count(recv, port) ==
    LET index == 5 + port * 3
    IN  FromBytesSigned(Slice(recv, index, index + 3))
reset_count(port) == <<(port + 1) * 16 + 3, 0>>
\* mutant: the power is sent as given
set_pwm_unclamped(port, power) == <<(port + 1) * 16 + 1, power>>
set_pwm(port, power) == <<(port + 1) * 16 + 1, Min(Max(power, -128), 127)>>
set_brake(port, brake) == <<(port + 1) * 16 + 2, IF brake THEN 1 ELSE 0>>

\* SonarSensor, line 342
get_distance(recv) == recv[17 + 1]

\* GyroSensor, lines 346-365
gyro_reset == <<81, 0>>
\* mutant: the angle is taken as unsigned
get_angle_unsigned(recv) == FromBytes(Slice(recv, 18, 21)) \div 4096
get_angle(recv) ==
    LET value == FromBytes(Slice(recv, 18, 21)) \div 4096
    IN  IF value < 2048 THEN value ELSE value - 4096
get_angler_velocity(recv) ==
    LET value == FromBytes(Slice(recv, 18, 21)) % 4096
    IN  IF value < 2048 THEN value ELSE value - 4096

\* ColorSensor, lines 308, 316 and 324: the left and the right operand of the
\* `or` that decides whether the mode command is sent; the right one is
\* evaluated, by a later read of recv_data, only when the left one is false
ModeTestFirst(op, recv) ==
    IF op = "get_raw_color" THEN recv[15 + 1] = 0 ELSE recv[15 + 1] # 0
ModeTestSecond(op, recv) ==
    IF op = "get_brightness" THEN recv[16 + 1] # 2
    ELSE IF op = "get_ambient" THEN recv[16 + 1] # 0
    ELSE recv[16 + 1] = 0
\* the value of lines 309, 317 and 325
ModeOf(op) == IF op = "get_brightness" THEN 2 ELSE IF op = "get_ambient" THEN 0 ELSE 3
\* lines 327-329: max(conn.recv_data[i] - 1, 0)
RawChannel(recv, i) == Max(recv[i + 1] - 1, 0)

(***************************************************************************)
(* What the serial channel delivers.  A first read of _recv_report asks    *)
(* for 32 bytes; the pool holds base64 text of 24-byte payloads            *)
(* [0x7f][0x70 + parity nibble][time 3][counts 9][sensor 3][sonar 1]       *)
(* [gyro 3][selector 1][value 2] and garbled reads.                        *)
(***************************************************************************)
\* "f3MAAAEAAAAAAAAAAAAAAAAAAAAAAAAC": time 1, selector 0, value 0x0002,
\* nibble 3 = XOR fold = OR fold
FrameA == << 102, 51, 77, 65, 65, 65, 69, 65, 65, 65, 65, 65, 65, 65, 65, 65,
             65, 65, 65, 65, 65, 65, 65, 65, 65, 65, 65, 65, 65, 65, 65, 67 >>
\* "f30AAAQAAAAAAAAAAAAAAAAAAAAAAQAI": time 4, selector 1, value 0x0008,
\* nibble 13 = XOR fold = OR fold
FrameB == << 102, 51, 48, 65, 65, 65, 81, 65, 65, 65, 65, 65, 65, 65, 65, 65,
             65, 65, 65, 65, 65, 65, 65, 65, 65, 65, 65, 65, 65, 81, 65, 73 >>
\* "f3EAAAEAAAAAAAAAAAAAAAAAAAAAAQAA": time 1, selector 1, value 0,
\* nibble 1 = OR fold, while the XOR fold is 0
FrameOrOnly == << 102, 51, 69, 65, 65, 65, 69, 65, 65, 65, 65, 65, 65, 65, 65, 65,
                  65, 65, 65, 65, 65, 65, 65, 65, 65, 65, 65, 65, 65, 81, 65, 65 >>
\* "f3wAAAEAAAAAAAAAAAAAAAAAAAAAAAAC": FrameA with nibble 12, neither fold
FrameBad == << 102, 51, 119, 65, 65, 65, 69, 65, 65, 65, 65, 65, 65, 65, 65, 65,
               65, 65, 65, 65, 65, 65, 65, 65, 65, 65, 65, 65, 65, 65, 65, 67 >>
\* 32 bytes without the marker's first byte
NoMarker == [i \in 1..BufferLen |-> 65]
\* CR LF and then the first 30 bytes of FrameA: the rest comes with a
\* follow-up read
ShiftedA == <<13, 10>> \o SubSeq(FrameA, 1, BufferLen - 2)

\* "f3sAAAEAAAAAAAAAAAAIAAIAAAAAAAAA": sensor bytes 14..16 = 8, 0, 2 (reflect)
FrameReflect == << 102, 51, 115, 65, 65, 65, 69, 65, 65, 65, 65, 65, 65, 65, 65, 65,
                   65, 65, 65, 73, 65, 65, 73, 65, 65, 65, 65, 65, 65, 65, 65, 65 >>
\* "f3cAAAAAAAAAAAAAAAABAgQAAAAAAAAA": sensor bytes 1, 2, 4 (rgb)
FrameRgb == << 102, 51, 99, 65, 65, 65, 65, 65, 65, 65, 65, 65, 65, 65, 65, 65,
               65, 65, 65, 66, 65, 103, 81, 65, 65, 65, 65, 65, 65, 65, 65, 65 >>
\* "f3EAAAAAAAAAAAAAAAAQAAAAAAAAAAAA": sensor bytes 16, 0, 0 (ambient)
FrameAmbient == << 102, 51, 69, 65, 65, 65, 65, 65, 65, 65, 65, 65, 65, 65, 65, 65,
                   65, 65, 65, 81, 65, 65, 65, 65, 65, 65, 65, 65, 65, 65, 65, 65 >>
\* "f3UAAAAAAAAAAAAAAAAEAQAAAAAAAAAA": sensor bytes 4, 1, 0 (no mode's shape)
FrameOdd == << 102, 51, 85, 65, 65, 65, 65, 65, 65, 65, 65, 65, 65, 65, 65, 65,
               65, 65, 65, 69, 65, 81, 65, 65, 65, 65, 65, 65, 65, 65, 65, 65 >>

AllReads == {FrameA, FrameB, FrameOrOnly, FrameBad, NoMarker, ShiftedA}
FewReads == {FrameA, ShiftedA}

\* a follow-up read of n bytes: the last n bytes of FrameA or of a read of
\* the pool, or n bytes of line noise
MoreReads(pool, n) ==
    {SubSeq(f, BufferLen - n + 1, BufferLen) : f \in pool \cup {FrameA}}
        \cup {[i \in 1..n |-> 10]}

\* int(self.interval * 1000), in clock ticks
Intervals == {2, 3}
ShortInterval == {1}

(***************************************************************************)
(* The accessor calls the calling code makes: [op, port, arg].             *)
(***************************************************************************)
Ports == {0, 1, 2}
Powers == {-1000, -129, -128, -50, 0, 100, 127, 128, 1000}
AccessorCallOf(op, port, arg) == [op |-> op, port |-> port, arg |-> arg]
HubCalls ==
    {AccessorCallOf(op, 0, <<>>) : op \in {"get_time", "get_battery_voltage",
                                           "get_battery_current", "get_button_pressed"}}
    \cup {AccessorCallOf("set_led", 0, <<5>>), AccessorCallOf("set_speaker_volume", 0, <<10>>),
          AccessorCallOf("play_speaker_tone", 0, <<440, 100>>)}
MotorCommandCalls ==
    {AccessorCallOf("set_pwm", p, <<w>>) : p \in Ports, w \in Powers}
    \cup {AccessorCallOf("set_brake", p, <<b>>) : p \in Ports, b \in {0, 1}}
    \cup {AccessorCallOf("reset_count", p, <<>>) : p \in Ports}
ColorCalls == {AccessorCallOf(op, 0, <<>>) : op \in {"get_brightness", "get_ambient",
                                                     "get_raw_color"}}
\* one call of every accessor that looks the connection up
EveryAccessor ==
    HubCalls \cup ColorCalls
    \cup {AccessorCallOf("get_count", 1, <<>>), AccessorCallOf("reset_count", 1, <<>>),
          AccessorCallOf("set_pwm", 1, <<100>>), AccessorCallOf("set_brake", 1, <<1>>),
          AccessorCallOf("get_distance", 0, <<>>), AccessorCallOf("reset", 0, <<>>),
          AccessorCallOf("get_angle", 0, <<>>), AccessorCallOf("get_angler_velocity", 0, <<>>)}

(***************************************************************************)
(* State.  Threads 1 (the main thread) and 2 may call connect_spike; the   *)
(* _Connector object a caller constructs carries the caller's number.      *)
(***************************************************************************)
Threads == {1, 2}
MainThread == 1
None == 0

VARIABLES
    env,            \* [callers, horizon, intervals, pool, calls]: who calls connect_spike
                    \* and with which interval, the clock's horizon, what the channel
                    \* delivers, which accessor calls the calling code makes
    probe,          \* the function or accessor call under observation: a decoded
                    \* payload handed to _is_valid_parity on its own and what it
                    \* returned, or the accessor call in progress
    feed,           \* the reads that still return data before the channel falls
                    \* silent; Unlimited when it never does
    now,            \* time.time() in ticks
    CONNECTOR,      \* the global _CONNECTOR: None or a connector
    cpc,            \* thread -> where it is in connect_spike / run
    target,         \* thread -> the connector its run() works on (self)
    interval,       \* connector -> int(self.interval * 1000)
    opened,         \* connector -> self.serial was opened
    running,        \* connector -> self.running
    started,        \* connector -> self.started
    recv_data,      \* connector -> self.recv_data
    sent,           \* connector -> what was written to self.serial, in order:
                    \* [by: "run" or "facade", frame: the 7 bytes]
    rpc,            \* thread -> where the receiver thread of its run() is
    buffer,         \* thread -> the receiver's buffer (bytearray(32))
    size,           \* thread -> size of _recv_report
    hpc,            \* thread -> where the handler thread of its run() is
    previous_time,  \* thread -> previous_time of _run_handler
    current_time,   \* thread -> current_time of _run_handler
    process_time,   \* thread -> process_time of _run_handler
    interrupted,    \* a KeyboardInterrupt was delivered to the main thread
    readyAt,        \* history: connector -> time self.started was first set, -1 before
    applied,        \* history: connector -> a frame with the documented (XOR) parity was applied
    lastFrame,      \* history: thread -> what the receiver decided on its last frame
    ncalls          \* history: thread -> the handler invocations of its run()

vars == << env, probe, feed, now, CONNECTOR, cpc, target, interval, opened, running, started,
           recv_data, sent, rpc, buffer, size, hpc, previous_time, current_time,
           process_time, interrupted, readyAt, applied, lastFrame, ncalls >>

connVars == << interval, opened, running, started, recv_data, sent >>
recvVars == << rpc, buffer, size >>
handVars == << hpc, previous_time, current_time, process_time >>
histVars == << readyAt, applied, lastFrame, ncalls >>

Unlimited == 0 - 1

NoProbe == [payload |-> <<>>, verdict |-> "none"]

Machine(e) ==
    /\ env = [callers |-> e.callers, horizon |-> e.horizon,
              intervals |-> e.intervals, pool |-> e.pool, calls |-> e.calls]
    /\ feed = e.feed
    /\ now = e.start
    /\ CONNECTOR = None
    /\ cpc = [t \in Threads |-> "idle"]
    /\ target = [t \in Threads |-> None]
    /\ interval = [c \in Threads |-> 0]
    /\ opened = [c \in Threads |-> FALSE]
    /\ running = [c \in Threads |-> FALSE]
    /\ started = [c \in Threads |-> FALSE]
    /\ recv_data = [c \in Threads |-> <<>>]
    /\ sent = [c \in Threads |-> <<>>]
    /\ rpc = [t \in Threads |-> "off"]
    /\ buffer = [t \in Threads |-> <<>>]
    /\ size = [t \in Threads |-> 0]
    /\ hpc = [t \in Threads |-> "off"]
    /\ previous_time = [t \in Threads |-> 0]
    /\ current_time = [t \in Threads |-> 0]
    /\ process_time = [t \in Threads |-> 0]
    /\ interrupted = FALSE
    /\ readyAt = [c \in Threads |-> -1]
    /\ applied = [c \in Threads |-> FALSE]
    /\ lastFrame = [t \in Threads |-> "none"]
    /\ ncalls = [t \in Threads |-> 0]

InitWith(e) == Machine(e) /\ probe = NoProbe

\* the main thread calls; every frame of the pool may arrive
Init == InitWith([callers |-> {MainThread}, start |-> 0, horizon |-> FrameHorizon,
                  intervals |-> ShortInterval, pool |-> AllReads, feed |-> Unlimited,
                  calls |-> {}])
\* the main thread calls; a long clock and several intervals
InitTime == InitWith([callers |-> {MainThread}, start |-> 0, horizon |-> MaxTime,
                      intervals |-> Intervals, pool |-> FewReads, feed |-> Unlimited,
                  calls |-> {}])
\* the main thread calls; few frames, for the properties of whole behaviours
InitFair == InitWith([callers |-> {MainThread}, start |-> 0, horizon |-> FrameHorizon,
                      intervals |-> ShortInterval, pool |-> {FrameA, NoMarker, ShiftedA},
                      feed |-> Unlimited,
                  calls |-> {}])
\* two threads both call connect_spike
InitConc == InitWith([callers |-> Threads, start |-> 1, horizon |-> ConcHorizon,
                      intervals |-> ShortInterval, pool |-> {ShiftedA}, feed |-> ConcReads,
                      calls |-> {}])

(***************************************************************************)
(* The clock.                                                              *)
(***************************************************************************)
Tick ==
    /\ now < env.horizon
    /\ now' = now + 1
    /\ UNCHANGED << env, probe, feed, CONNECTOR, cpc, target, connVars, recvVars, handVars,
                    interrupted, histVars >>

(***************************************************************************)
(* connect_spike (connector.py:55-74), statement by statement.             *)
(***************************************************************************)
\* a thread calls connect_spike
Call(t) ==
    /\ t \in env.callers
    /\ cpc[t] = "idle"
    /\ cpc' = [cpc EXCEPT ![t] = "check"]
    /\ UNCHANGED << env, probe, feed, now, CONNECTOR, target, connVars, recvVars, handVars,
                    interrupted, histVars >>

\* mutant: the test of line 64 is dropped
CheckDropped(t) ==
    /\ cpc[t] = "check"
    /\ cpc' = [cpc EXCEPT ![t] = "construct"]
    /\ UNCHANGED << env, probe, feed, now, CONNECTOR, target, connVars, recvVars, handVars,
                    interrupted, histVars >>

\* lines 64-65: if _CONNECTOR is not None: raise Exception(...)
Check(t) ==
    /\ cpc[t] = "check"
    /\ cpc' = [cpc EXCEPT ![t] = IF CONNECTOR # None THEN "rejected" ELSE "construct"]
    /\ UNCHANGED << env, probe, feed, now, CONNECTOR, target, connVars, recvVars, handVars,
                    interrupted, histVars >>

\* lines 67-72 and 88-104: _Connector(...), which opens the serial channel
Construct(t) ==
    /\ cpc[t] = "construct"
    /\ \E i \in env.intervals : interval' = [interval EXCEPT ![t] = i]
    /\ running' = [running EXCEPT ![t] = FALSE]
    /\ started' = [started EXCEPT ![t] = FALSE]
    /\ recv_data' = [recv_data EXCEPT ![t] = Zeros(RecvLen)]
    /\ sent' = [sent EXCEPT ![t] = <<>>]
    /\ opened' = [opened EXCEPT ![t] = TRUE]
    /\ cpc' = [cpc EXCEPT ![t] = "assign"]
    /\ UNCHANGED << env, probe, feed, now, CONNECTOR, target, recvVars, handVars, interrupted, histVars >>

\* line 67: _CONNECTOR = <the new object>
Assign(t) ==
    /\ cpc[t] = "assign"
    /\ CONNECTOR' = t
    /\ cpc' = [cpc EXCEPT ![t] = "lookup"]
    /\ UNCHANGED << env, probe, feed, now, target, connVars, recvVars, handVars, interrupted, histVars >>

\* line 73: _CONNECTOR.run reads the global again; on None it raises
\* AttributeError
Lookup(t) ==
    /\ cpc[t] = "lookup"
    /\ IF CONNECTOR = None
       THEN /\ cpc' = [cpc EXCEPT ![t] = "raised"]
            /\ UNCHANGED target
       ELSE /\ cpc' = [cpc EXCEPT ![t] = "run"]
            /\ target' = [target EXCEPT ![t] = CONNECTOR]
    /\ UNCHANGED << env, probe, feed, now, CONNECTOR, connVars, recvVars, handVars, interrupted, histVars >>

\* line 74: _CONNECTOR = None, and connect_spike returns
Clear(t) ==
    /\ cpc[t] = "clear"
    /\ CONNECTOR' = None
    /\ cpc' = [cpc EXCEPT ![t] = "returned"]
    /\ UNCHANGED << env, probe, feed, now, target, connVars, recvVars, handVars, interrupted, histVars >>

(***************************************************************************)
(* _Connector.run (connector.py:106-133).                                  *)
(***************************************************************************)
\* lines 107-120: the flags are set and both threads are started
RunStart(t) ==
    /\ cpc[t] = "run"
    /\ running' = [running EXCEPT ![target[t]] = TRUE]
    /\ started' = [started EXCEPT ![target[t]] = FALSE]
    /\ rpc' = [rpc EXCEPT ![t] = "loop"]
    /\ buffer' = [buffer EXCEPT ![t] = Zeros(BufferLen)]
    /\ size' = [size EXCEPT ![t] = 0]
    /\ hpc' = [hpc EXCEPT ![t] = "loop"]
    /\ previous_time' = [previous_time EXCEPT ![t] = 0]
    /\ cpc' = [cpc EXCEPT ![t] = "join_receiver"]
    /\ UNCHANGED << env, probe, feed, now, CONNECTOR, target, interval, opened, recv_data, sent,
                    current_time, process_time, interrupted, histVars >>

\* lines 123 and 129: receiver_thread.join()
JoinReceiver(t) ==
    /\ cpc[t] \in {"join_receiver", "except_join_receiver"}
    /\ rpc[t] = "done"
    /\ cpc' = [cpc EXCEPT ![t] = IF cpc[t] = "join_receiver"
                                  THEN "join_handler" ELSE "except_join_handler"]
    /\ UNCHANGED << env, probe, feed, now, CONNECTOR, target, connVars, recvVars, handVars,
                    interrupted, histVars >>

\* lines 124 and 130: handler_thread.join()
JoinHandler(t) ==
    /\ cpc[t] \in {"join_handler", "except_join_handler"}
    /\ hpc[t] \in {"done", "stopped", "failed"}
    /\ cpc' = [cpc EXCEPT ![t] = IF cpc[t] = "join_handler" THEN "clear" ELSE "stop1"]
    /\ UNCHANGED << env, probe, feed, now, CONNECTOR, target, connVars, recvVars, handVars,
                    interrupted, histVars >>

\* KeyboardInterrupt, which Python raises in the main thread, while it is in
\* the try block (one of the two joins)
Interrupt ==
    /\ ~interrupted
    /\ cpc[MainThread] \in {"join_receiver", "join_handler"}
    /\ interrupted' = TRUE
    /\ cpc' = [cpc EXCEPT ![MainThread] = "except"]
    /\ UNCHANGED << env, probe, feed, now, CONNECTOR, target, connVars, recvVars, handVars, histVars >>

\* lines 127-128
ExceptClear(t) ==
    /\ cpc[t] = "except"
    /\ running' = [running EXCEPT ![target[t]] = FALSE]
    /\ started' = [started EXCEPT ![target[t]] = FALSE]
    /\ cpc' = [cpc EXCEPT ![t] = "except_join_receiver"]
    /\ UNCHANGED << env, probe, feed, now, CONNECTOR, target, interval, opened, recv_data, sent,
                    recvVars, handVars, interrupted, histVars >>

\* mutants: the third stop goes to port B again; brake codes instead of power
StopCodeTwiceB(k) == IF k = 3 THEN 16 * 2 + 1 ELSE 16 * k + 1
StopCodeBrake(k) == 16 * k + 2

\* the command codes of lines 131-133, in order
StopCode(k) == 16 * k + 1

\* lines 131-133: send_command(command=0x11 / 0x21 / 0x31, value=0)
SendStop(t) ==
    /\ \E k \in 1..3 :
        /\ cpc[t] = <<"stop1", "stop2", "stop3">>[k]
        /\ sent' = [sent EXCEPT ![target[t]] =
                        Append(@, [by |-> "run", frame |-> CommandFrame(StopCode(k), 0)])]
        /\ cpc' = [cpc EXCEPT ![t] = <<"stop2", "stop3", "clear">>[k]]
    /\ UNCHANGED << env, probe, feed, now, CONNECTOR, target, interval, opened, running, started,
                    recv_data, recvVars, handVars, interrupted, histVars >>

(***************************************************************************)
(* _run_receiver (connector.py:135-165) and _recv_report (167-203).        *)
(* The receiver thread of the run() of thread t works on self = target[t]. *)
(***************************************************************************)
\* mutant: the finally clause forgets self.started
RecvFinallyKeepsStarted(c) ==
    /\ running' = [running EXCEPT ![c] = FALSE]
    /\ UNCHANGED started

\* mutant: the finally clause forgets self.running
RecvFinallyKeepsRunning(c) ==
    /\ started' = [started EXCEPT ![c] = FALSE]
    /\ UNCHANGED running

\* lines 163-165: the finally clause of the receiver
RecvFinally(c) ==
    /\ running' = [running EXCEPT ![c] = FALSE]
    /\ started' = [started EXCEPT ![c] = FALSE]

\* line 139: while self.running; when it is false the finally clause clears
\* both flags and the thread ends
RecvLoop(t) ==
    /\ rpc[t] = "loop"
    /\ IF running[target[t]]
       THEN /\ rpc' = [rpc EXCEPT ![t] = "read"]
            /\ UNCHANGED << running, started >>
       ELSE /\ rpc' = [rpc EXCEPT ![t] = "done"]
            /\ RecvFinally(target[t])
    /\ UNCHANGED << env, probe, feed, now, CONNECTOR, cpc, target, interval, opened, recv_data, sent,
                    buffer, size, handVars, interrupted, histVars >>

\* lines 169-189: the first read returned 32 bytes
RecvFirstRead(t) ==
    /\ rpc[t] = "read"
    /\ feed # 0
    /\ feed' = IF feed > 0 THEN feed - 1 ELSE feed
    /\ \E buf \in env.pool :
        LET offset == FindMarker(buf, 0)
            tail == SubSeq(buf, offset + 1, Len(buf))
            n == Len(Filtered(tail))
        IN  IF offset < 0
            THEN /\ rpc' = [rpc EXCEPT ![t] = "loop"]
                 /\ lastFrame' = [lastFrame EXCEPT ![t] = "nomarker"]
                 /\ UNCHANGED << buffer, size >>
            ELSE /\ buffer' = [buffer EXCEPT ![t] = CopyInto(@, 0, tail)]
                 /\ size' = [size EXCEPT ![t] = IF n < BufferLen THEN n ELSE 0]
                 /\ rpc' = [rpc EXCEPT ![t] = IF n < BufferLen THEN "more" ELSE "frame"]
                 /\ UNCHANGED lastFrame
    /\ UNCHANGED << env, probe, now, CONNECTOR, cpc, target, connVars, handVars, interrupted,
                    readyAt, applied, ncalls >>

\* lines 192-201: a follow-up read returned the len(buffer) - size bytes asked for
RecvMoreRead(t) ==
    /\ rpc[t] = "more"
    /\ feed # 0
    /\ feed' = IF feed > 0 THEN feed - 1 ELSE feed
    /\ \E buf \in MoreReads(env.pool, BufferLen - size[t]) :
        LET n == size[t] + Len(Filtered(buf))
        IN  /\ buffer' = [buffer EXCEPT ![t] = CopyInto(@, size[t], buf)]
            /\ size' = [size EXCEPT ![t] = IF n < BufferLen THEN n ELSE 0]
            /\ rpc' = [rpc EXCEPT ![t] = IF n < BufferLen THEN "more" ELSE "frame"]
    /\ UNCHANGED << env, probe, now, CONNECTOR, cpc, target, connVars, handVars, interrupted,
                    histVars >>

\* lines 172-173 and 194-195: a read returned fewer bytes than asked for; the
\* exception leaves the loop through the finally clause
RecvTimeout(t) ==
    /\ rpc[t] \in {"read", "more"}
    /\ rpc' = [rpc EXCEPT ![t] = "done"]
    /\ size' = [size EXCEPT ![t] = 0]
    /\ RecvFinally(target[t])
    /\ lastFrame' = [lastFrame EXCEPT ![t] = IF rpc[t] = "read" THEN "timeout" ELSE "timeout_more"]
    /\ UNCHANGED << env, probe, feed, now, CONNECTOR, cpc, target, interval, opened, recv_data, sent,
                    buffer, handVars, interrupted, readyAt, applied, ncalls >>

\* what lines 144-162 do with an assembled frame
FrameOutcome(buf, recv) ==
    LET d == B64Decode(buf)
        a == ApplyFrame(recv, d.data)
    IN  IF ~d.ok THEN [kind |-> "decode_error", recv |-> recv]
        ELSE IF IsValidParity(d.data) = "raise" THEN [kind |-> "parity_raise", recv |-> recv]
        ELSE IF IsValidParity(d.data) = "invalid" THEN [kind |-> "invalid", recv |-> recv]
        ELSE IF a.raise THEN [kind |-> "apply_raise", recv |-> a.recv]
        ELSE [kind |-> "applied", recv |-> a.recv]

\* an exception that `except UnicodeDecodeError` does not catch
Fatal(kind) == kind \in {"decode_error", "parity_raise", "apply_raise"}

\* lines 144-165: decode, check the parity, store, set self.started
RecvProcess(t) ==
    /\ rpc[t] = "frame"
    /\ LET c == target[t]
           o == FrameOutcome(buffer[t], recv_data[c])
           d == B64Decode(buffer[t]).data
       IN  /\ recv_data' = [recv_data EXCEPT ![c] = o.recv]
           /\ IF Fatal(o.kind)
              THEN RecvFinally(c)
              ELSE /\ started' = [started EXCEPT ![c] = IF o.kind = "applied" THEN TRUE ELSE @]
                   /\ UNCHANGED running
           /\ rpc' = [rpc EXCEPT ![t] = IF Fatal(o.kind) THEN "done" ELSE "loop"]
           /\ lastFrame' = [lastFrame EXCEPT ![t] = o.kind]
           /\ readyAt' = [readyAt EXCEPT ![c] =
                            IF o.kind = "applied" /\ @ = -1 THEN now ELSE @]
           /\ applied' = [applied EXCEPT ![c] =
                            @ \/ (o.kind = "applied" /\ d[2] % 16 = XorNibble(d))]
    /\ UNCHANGED << env, probe, feed, now, CONNECTOR, cpc, target, interval, opened, sent,
                    buffer, size, handVars, interrupted, ncalls >>

(***************************************************************************)
(* _run_handler (connector.py:214-241).                                    *)
(***************************************************************************)
\* mutant: the clock reading is taken as the slot
SlotOfUnaligned(time, interval_time) == time

\* line 222: (current_time // interval_time) * interval_time
SlotOf(time, interval_time) == (time \div interval_time) * interval_time

\* mutant: the finally clause forgets self.running
HandlerFinallyKeepsRunning(c) ==
    /\ started' = [started EXCEPT ![c] = FALSE]
    /\ UNCHANGED running

\* lines 239-241: the finally clause of the handler thread
HandlerFinally(c) ==
    /\ running' = [running EXCEPT ![c] = FALSE]
    /\ started' = [started EXCEPT ![c] = FALSE]

\* mutant: the handler is called whether or not data has arrived
ReadyAlways(c) == TRUE

\* line 231: the handler is called only when self.started
Ready(c) == started[c]

\* lines 218-228: while self.running, read the clock, and sleep when the slot
\* is the one of the previous invocation; when self.running is false the
\* finally clause clears both flags and the thread ends
HandlerLoop(t) ==
    /\ hpc[t] = "loop"
    /\ IF running[target[t]]
       THEN /\ current_time' = [current_time EXCEPT ![t] = now]
            /\ process_time' = [process_time EXCEPT ![t] = SlotOf(now, interval[target[t]])]
            /\ hpc' = [hpc EXCEPT ![t] =
                         IF SlotOf(now, interval[target[t]]) = previous_time[t]
                         THEN "sleep" ELSE "ready"]
            /\ UNCHANGED << running, started >>
       ELSE /\ hpc' = [hpc EXCEPT ![t] = "done"]
            /\ HandlerFinally(target[t])
            /\ UNCHANGED << current_time, process_time >>
    /\ UNCHANGED << env, probe, feed, now, CONNECTOR, cpc, target, interval, opened, recv_data, sent,
                    recvVars, previous_time, interrupted, histVars >>

\* lines 226-228: time.sleep returns once the clock has reached next_time
\* (at the horizon the clock shows no later time)
HandlerSleep(t) ==
    /\ hpc[t] = "sleep"
    /\ now >= previous_time[t] + interval[target[t]] \/ now = env.horizon
    /\ hpc' = [hpc EXCEPT ![t] = "loop"]
    /\ UNCHANGED << env, probe, feed, now, CONNECTOR, cpc, target, connVars, recvVars, previous_time,
                    current_time, process_time, interrupted, histVars >>

\* lines 231-236: nothing without self.started; else the slot is taken and
\* the handler is called
HandlerCheck(t) ==
    /\ hpc[t] = "ready"
    /\ IF Ready(target[t])
       THEN /\ previous_time' = [previous_time EXCEPT ![t] = process_time[t]]
            /\ hpc' = [hpc EXCEPT ![t] = "handler"]
            /\ ncalls' = [ncalls EXCEPT ![t] = @ + 1]
       ELSE /\ hpc' = [hpc EXCEPT ![t] = "loop"]
            /\ UNCHANGED << previous_time, ncalls >>
    /\ UNCHANGED << env, probe, feed, now, CONNECTOR, cpc, target, connVars, recvVars,
                    current_time, process_time, interrupted, readyAt, applied, lastFrame >>

\* line 236: self.handler() returns
HandlerReturn(t) ==
    /\ hpc[t] = "handler"
    /\ hpc' = [hpc EXCEPT ![t] = "loop"]
    /\ UNCHANGED << env, probe, feed, now, CONNECTOR, cpc, target, connVars, recvVars, previous_time,
                    current_time, process_time, interrupted, histVars >>

\* lines 237-241: self.handler() raises StopIteration
HandlerStop(t) ==
    /\ hpc[t] = "handler"
    /\ hpc' = [hpc EXCEPT ![t] = "stopped"]
    /\ HandlerFinally(target[t])
    /\ UNCHANGED << env, probe, feed, now, CONNECTOR, cpc, target, interval, opened, recv_data, sent,
                    recvVars, previous_time, current_time, process_time, interrupted,
                    histVars >>

\* the handler thread has ended
HandlerEnded(t) == hpc[t] \in {"done", "stopped", "failed"}

(***************************************************************************)
(* The specifications.                                                     *)
(***************************************************************************)
Caller(t) ==
    \/ Check(t) \/ Construct(t) \/ Assign(t) \/ Lookup(t) \/ RunStart(t)
    \/ JoinReceiver(t) \/ JoinHandler(t) \/ ExceptClear(t) \/ SendStop(t) \/ Clear(t)

Receiver(t) == RecvLoop(t) \/ RecvFirstRead(t) \/ RecvMoreRead(t) \/ RecvTimeout(t) \/ RecvProcess(t)

Handler(t) ==
    \/ HandlerLoop(t) \/ HandlerSleep(t) \/ HandlerCheck(t)
    \/ HandlerReturn(t) \/ HandlerStop(t)

Next ==
    \/ Tick
    \/ Interrupt
    \/ \E t \in Threads : Call(t) \/ Caller(t) \/ Receiver(t) \/ Handler(t)

Spec == Init /\ [][Next]_vars

SpecTime == InitTime /\ [][Next]_vars

SpecConc == InitConc /\ [][Next]_vars

\* every thread of the main thread's connection that can take a step
\* eventually takes one (a serial read returns, with data or by timeout; the
\* handler returns or stops; the clock goes on); nothing obliges a caller to
\* call or an interrupt to arrive.  RecvProcess is enabled exactly when the
\* receiver is at "frame" and always leaves it, so its weak fairness is written
\* as the receiver being away from "frame" again and again
Fairness ==
    /\ WF_vars(Tick)
    /\ WF_vars(Caller(MainThread))
    /\ WF_vars(Handler(MainThread))
    /\ WF_vars(RecvLoop(MainThread))
    /\ WF_vars(RecvFirstRead(MainThread) \/ RecvTimeout(MainThread))
    /\ WF_vars(RecvMoreRead(MainThread))
    /\ []<>(rpc[MainThread] # "frame")

FairSpec == InitFair /\ [][Next]_vars /\ Fairness

(***************************************************************************)
(* Accessor calls (connector.py:257-365), made by the code that calls      *)
(* connect_spike while it is outside connect_spike ("user") or by the      *)
(* handler while it is being called ("handler"), one source statement a    *)
(* step.  probe holds the call in progress:                                *)
(*   [op, port, arg, by, ctx, back, pc, conn, raised, result, wrote],      *)
(* and the caller is at "accessor" until the call ends (back: where it     *)
(* was).                                                                   *)
(***************************************************************************)
NoCall == [op |-> "none", port |-> 0, arg |-> <<>>, by |-> None, ctx |-> "none",
           back |-> "none", pc |-> "idle", conn |-> None, raised |-> FALSE,
           result |-> <<>>, wrote |-> <<>>]

CommandOps == {"set_led", "play_speaker_tone", "set_speaker_volume", "reset_count",
               "set_pwm", "set_brake", "reset"}
ColorOps == {"get_brightness", "get_ambient", "get_raw_color"}
ReadingOps == {"get_time", "get_battery_voltage", "get_battery_current",
               "get_button_pressed", "get_count", "get_distance", "get_angle",
               "get_angler_velocity"}

\* the <<command, value>> a command accessor hands to send_command
CommandOf(p) ==
    CASE p.op = "set_led" -> set_led(p.arg[1])
      [] p.op = "play_speaker_tone" -> play_speaker_tone(p.arg[1], p.arg[2])
      [] p.op = "set_speaker_volume" -> set_speaker_volume(p.arg[1])
      [] p.op = "reset_count" -> reset_count(p.port)
      [] p.op = "set_pwm" -> set_pwm(p.port, p.arg[1])
      [] p.op = "set_brake" -> set_brake(p.port, p.arg[1] # 0)
      [] p.op = "reset" -> gyro_reset

\* what a reading accessor returns
ReadingOf(p, recv) ==
    CASE p.op = "get_time" -> get_time(recv)
      [] p.op = "get_battery_voltage" -> get_battery_voltage(recv)
      [] p.op = "get_battery_current" -> get_battery_current(recv)
      [] p.op = "get_button_pressed" -> get_button_pressed(recv)
      [] p.op = "get_count" -> get_count(recv, p.port)
      [] p.op = "get_distance" -> get_distance(recv)
      [] p.op = "get_angle" -> get_angle(recv)
      [] p.op = "get_angler_velocity" -> get_angler_velocity(recv)

\* mutant: the statement ends the call without an exception
ReturnNothing(p) == [probe |-> [p EXCEPT !.pc = "done"], frame |-> <<>>]

\* the statement ends the call with an exception
Raise(p) == [probe |-> [p EXCEPT !.raised = TRUE, !.pc = "done"], frame |-> <<>>]

\* one statement of the accessor p on the connector h with recv_data recv:
\* the call afterwards, and the frame the statement wrote (<<>> when none).
\* h is what _get_connector() returns (None: it raises) in the statements
\* that call it, and the local conn in the others; indexing recv_data beyond
\* its length raises IndexError
Statement(p, h, recv) ==
    IF h = None THEN Raise(p)
    ELSE IF p.pc = "lookup" /\ p.op \in CommandOps
    THEN LET f == CommandFrame(CommandOf(p)[1], CommandOf(p)[2])
         IN  [probe |-> [p EXCEPT !.pc = "done", !.conn = h, !.wrote = Append(@, f)],
              frame |-> <<f>>]
    ELSE IF p.pc = "lookup" /\ p.op \in ReadingOps
    THEN IF p.op = "get_distance" /\ Len(recv) <= 17 THEN Raise(p)
         ELSE [probe |-> [p EXCEPT !.pc = "done", !.conn = h,
                                   !.result = <<ReadingOf(p, recv)>>],
               frame |-> <<>>]
    ELSE IF p.pc = "lookup"
    THEN [probe |-> [p EXCEPT !.pc = "mode", !.conn = h], frame |-> <<>>]
    ELSE IF p.pc \in {"mode", "mode16"}
    THEN IF Len(recv) <= (IF p.pc = "mode" THEN 15 ELSE 16) THEN Raise(p)
         ELSE LET f == CommandFrame(65, ModeOf(p.op))
                  next == IF p.op = "get_raw_color" THEN "red" ELSE "read"
                  test == IF p.pc = "mode" THEN ModeTestFirst(p.op, recv)
                          ELSE ModeTestSecond(p.op, recv)
              IN  IF test
                  THEN [probe |-> [p EXCEPT !.pc = next, !.wrote = Append(@, f)],
                        frame |-> <<f>>]
                  ELSE IF p.pc = "mode"
                  THEN [probe |-> [p EXCEPT !.pc = "mode16"], frame |-> <<>>]
                  ELSE [probe |-> [p EXCEPT !.pc = next], frame |-> <<>>]
    ELSE IF p.pc = "read"
    THEN IF Len(recv) <= 14 THEN Raise(p)
         ELSE [probe |-> [p EXCEPT !.pc = "done", !.result = <<recv[14 + 1]>>],
               frame |-> <<>>]
    ELSE LET i == CASE p.pc = "red" -> 14 [] p.pc = "green" -> 15 [] p.pc = "blue" -> 16
             next == CASE p.pc = "red" -> "green" [] p.pc = "green" -> "blue"
                       [] p.pc = "blue" -> "done"
         IN  IF Len(recv) <= i THEN Raise(p)
             ELSE [probe |-> [p EXCEPT !.pc = next,
                                       !.result = Append(@, RawChannel(recv, i))],
                   frame |-> <<>>]

\* the frames accessors have written so far
FacadeFrames(c) ==
    LET byFacade(x) == x.by = "facade"
    IN  SelectSeq(sent[c], byFacade)

\* an accessor is called: by the code of thread t outside connect_spike, or
\* by the handler of the run() of thread t
AccessorCall(t) ==
    /\ probe.pc = "idle"
    /\ \A c \in Threads : Len(FacadeFrames(c)) < MaxSent
    /\ \E k \in env.calls :
        LET call == [NoCall EXCEPT !.op = k.op, !.port = k.port, !.arg = k.arg,
                                   !.by = t, !.pc = "lookup"]
        IN  \/ /\ t \in env.callers
               /\ cpc[t] \in {"idle", "returned", "rejected", "raised"}
               /\ probe' = [call EXCEPT !.ctx = "user", !.back = cpc[t]]
               /\ cpc' = [cpc EXCEPT ![t] = "accessor"]
               /\ UNCHANGED hpc
            \/ /\ hpc[t] = "handler"
               /\ probe' = [call EXCEPT !.ctx = "handler", !.back = "handler"]
               /\ hpc' = [hpc EXCEPT ![t] = "accessor"]
               /\ UNCHANGED cpc
    /\ UNCHANGED << env, feed, now, CONNECTOR, target, connVars, recvVars, previous_time,
                    current_time, process_time, interrupted, histVars >>

\* the next statement of the accessor in progress
AccessorStep ==
    /\ probe.pc \notin {"idle", "done"}
    /\ LET h == IF probe.pc \in {"lookup", "read"} THEN CONNECTOR ELSE probe.conn
           o == Statement(probe, h, IF h = None THEN <<>> ELSE recv_data[h])
       IN  /\ probe' = o.probe
           /\ sent' = IF o.frame = <<>> THEN sent
                      ELSE [sent EXCEPT ![h] = Append(@, [by |-> "facade", frame |-> o.frame[1]])]
    /\ UNCHANGED << env, feed, now, CONNECTOR, cpc, target, interval, opened, running, started,
                    recv_data, recvVars, handVars, interrupted, histVars >>

\* the accessor returns or raises to its caller; an exception raised in the
\* handler is not StopIteration and leaves _run_handler through its finally
\* clause (lines 239-241)
AccessorReturn ==
    /\ probe.pc = "done"
    /\ probe' = NoCall
    /\ IF probe.ctx = "user"
       THEN /\ cpc' = [cpc EXCEPT ![probe.by] = probe.back]
            /\ UNCHANGED << hpc, running, started >>
       ELSE IF probe.raised
       THEN /\ hpc' = [hpc EXCEPT ![probe.by] = "done"]
            /\ HandlerFinally(target[probe.by])
            /\ UNCHANGED cpc
       ELSE /\ hpc' = [hpc EXCEPT ![probe.by] = probe.back]
            /\ UNCHANGED << cpc, running, started >>
    /\ UNCHANGED << env, feed, now, CONNECTOR, target, interval, opened, recv_data, sent,
                    recvVars, previous_time, current_time, process_time, interrupted, histVars >>

NextFacade ==
    \/ Next
    \/ \E t \in Threads : AccessorCall(t)
    \/ AccessorStep
    \/ AccessorReturn

\* the main thread connects, and its code and its handler call every accessor
InitFacade ==
    /\ Machine([callers |-> {MainThread}, start |-> 0, horizon |-> FacadeHorizon,
                intervals |-> ShortInterval, pool |-> {FrameA, ShiftedA},
                feed |-> Unlimited, calls |-> EveryAccessor])
    /\ probe = NoCall

SpecFacade == InitFacade /\ [][NextFacade]_vars

(***************************************************************************)
(* _is_valid_parity on its own: nobody connects, a decoded payload is      *)
(* drawn from ParityPayloads and validated.                                *)
(***************************************************************************)
ParityBytes == {0, 1, 2, 16, 17, 255}
ParityHeads == {<<127, 112 + n>> : n \in {0, 1, 2, 3, 15}}
ParityBodies ==
    {<<>>} \cup {<<a>> : a \in ParityBytes}
           \cup {<<a, b>> : a \in ParityBytes, b \in ParityBytes}
           \cup {<<a, b, c>> : a \in ParityBytes, b \in ParityBytes, c \in ParityBytes}
ParityPayloads == {h \o b : h \in ParityHeads, b \in ParityBodies}

InitParity ==
    /\ Machine([callers |-> {}, start |-> 0, horizon |-> 0, intervals |-> {},
                pool |-> {}, feed |-> 0, calls |-> {}])
    /\ probe \in {[payload |-> p, verdict |-> "none"] : p \in ParityPayloads}

Validate ==
    /\ probe.verdict = "none"
    /\ probe.payload # <<>>
    /\ probe' = [probe EXCEPT !.verdict = IsValidParity(probe.payload)]
    /\ UNCHANGED << env, feed, now, CONNECTOR, cpc, target, connVars, recvVars, handVars,
                    interrupted, histVars >>

SpecParity == InitParity /\ [][Validate]_vars

(***************************************************************************)
(* C1.  _is_valid_parity succeeds exactly when the low nibble of byte 1    *)
(* equals the XOR of the bytes from offset 2 on, folded to 4 bits, and     *)
(* fails for every other payload.                                          *)
(***************************************************************************)
C1_ParityIsXorFold ==
    probe.verdict # "none" =>
        (probe.verdict = "valid" <=> probe.payload[2] % 16 = XorNibble(probe.payload))


(***************************************************************************)
(* C2.  A received frame that fails the marker search or the parity check  *)
(* leaves recv_data and self.started unchanged, and the receiver goes on   *)
(* to the next read.  The parity check is the documented one (C1).         *)
(***************************************************************************)
DocumentedParityFails(buf) ==
    LET d == B64Decode(buf)
    IN  d.ok /\ Len(d.data) >= 2 /\ d.data[2] % 16 # XorNibble(d.data)

C2_BadFrameLeavesState ==
    [][\A t \in Threads :
        (\/ rpc[t] = "read" /\ rpc'[t] = "loop"
         \/ rpc[t] = "frame" /\ rpc'[t] # "frame" /\ DocumentedParityFails(buffer[t]))
        => (recv_data' = recv_data /\ started' = started /\ rpc'[t] = "loop")]_vars

(***************************************************************************)
(* C3.  Every handler invocation is assigned the slot                      *)
(* floor(now_ms / interval_ms) * interval_ms of the clock reading of its   *)
(* pass; the slots of successive invocations are strictly increasing       *)
(* multiples of the interval, and an invocation starts only when no other  *)
(* is in progress on the connection.                                       *)
(***************************************************************************)
Invoke(t) == hpc[t] = "ready" /\ hpc'[t] = "handler"

C3_CadenceAligned ==
    [][\A t \in Threads : Invoke(t) =>
        LET i == interval[target[t]]
        IN  /\ process_time[t] % i = 0
            /\ process_time[t] <= current_time[t]
            /\ current_time[t] < process_time[t] + i
            /\ current_time[t] <= now
            /\ process_time[t] > previous_time[t]
            /\ previous_time'[t] = process_time[t]
            /\ \A u \in Threads : target[u] = target[t] => hpc[u] # "handler"]_vars

\* a second invocation is still in progress a slot or more after its own
C3_Witness ==
    \E t \in Threads :
        /\ hpc[t] = "handler" /\ ncalls[t] >= 2
        /\ now >= previous_time[t] + interval[target[t]]

(***************************************************************************)
(* C4, as claimed.  When self.started first becomes true at a time that is *)
(* not a slot boundary, no invocation is made for a slot that began before *)
(* that time (none before the next boundary).                              *)
(***************************************************************************)
C4_NoCallBeforeNextBoundary ==
    [][\A t \in Threads :
        (Invoke(t) /\ readyAt[target[t]] % interval[target[t]] # 0)
        => process_time[t] > readyAt[target[t]]]_vars

(***************************************************************************)
(* C4, amended.  No handler invocation is made before self.started became  *)
(* true; the invocation is made as soon as the handler thread sees it, for *)
(* the slot of its last clock reading, which may have begun before.        *)
(***************************************************************************)
C4_NoCallBeforeReady ==
    [][\A t \in Threads : Invoke(t) =>
        /\ readyAt[target[t]] >= 0
        /\ readyAt[target[t]] <= now
        /\ process_time[t] <= now]_vars

\* the first invocation, for a slot that began before self.started was set
C4_Witness ==
    \E t \in Threads :
        /\ hpc[t] = "handler" /\ ncalls[t] = 1
        /\ readyAt[target[t]] % interval[target[t]] # 0
        /\ previous_time[t] < readyAt[target[t]]

(***************************************************************************)
(* C5.  Every handler invocation is preceded by the receiver having        *)
(* applied a frame with valid parity (the documented one, C1).             *)
(***************************************************************************)
C5_CallOnlyAfterValidFrame ==
    \A t \in Threads : hpc[t] = "handler" => applied[target[t]]

(***************************************************************************)
(* C6.  After an interrupt self.running is cleared, both threads end, and  *)
(* only then the stop commands 0x11, 0x21, 0x31 with value 0 are written,  *)
(* all three before _CONNECTOR is released and connect_spike returns.      *)
(***************************************************************************)
ThreeStops ==
    << <<127, 17, 17, 0, 0, 0, 0>>, <<127, 33, 33, 0, 0, 0, 0>>,
       <<127, 49, 49, 0, 0, 0, 0>> >>

\* the frames run() wrote on connector c
RunFrames(c) ==
    LET byRun(x) == x.by = "run"
        s == SelectSeq(sent[c], byRun)
    IN  [i \in 1..Len(s) |-> s[i].frame]

IsPrefix(s, u) == Len(s) <= Len(u) /\ SubSeq(u, 1, Len(s)) = s

C7_StopsOnEveryExit ==
    \A t \in Threads : cpc[t] \in {"clear", "returned"} => RunFrames(target[t]) = ThreeStops

(***************************************************************************)
(* C7, amended.  The three stop commands are written before the teardown   *)
(* when run() leaves through the interrupt; when both threads end by       *)
(* themselves (handler stop, receiver termination) run() writes none.      *)
(***************************************************************************)
C7_StopsOnlyOnInterrupt ==
    \A t \in Threads : cpc[t] \in {"clear", "returned"} =>
        RunFrames(target[t]) = IF t = MainThread /\ interrupted THEN ThreeStops ELSE <<>>

\* returned without an interrupt after the handler had been called: nothing
\* was written
C7_Witness ==
    /\ cpc[MainThread] = "returned" /\ ~interrupted
    /\ ncalls[MainThread] >= 1
    /\ sent[target[MainThread]] = <<>>

(***************************************************************************)
(* C8.  A read timeout, in the first read or in a follow-up read, ends the *)
(* receiver with both flags cleared, and then the handler thread ends and  *)
(* connect_spike returns.                                                  *)
(***************************************************************************)
TimedOut(t) == lastFrame[t] \in {"timeout", "timeout_more"}

C8_TimeoutEndsSession ==
    /\ [](TimedOut(MainThread) =>
            /\ rpc[MainThread] = "done"
            /\ ~running[target[MainThread]] /\ ~started[target[MainThread]])
    /\ TimedOut(MainThread) ~>
            (HandlerEnded(MainThread) /\ cpc[MainThread] = "returned" /\ CONNECTOR = None)

\* a follow-up read timed out after the handler had been called, and
\* connect_spike has returned
C8_Witness ==
    /\ lastFrame[MainThread] = "timeout_more"
    /\ ncalls[MainThread] >= 1
    /\ cpc[MainThread] = "returned"

Connected(t) ==
    opened[t] /\ cpc[t] \in {"assign", "lookup", "run", "join_receiver", "join_handler",
                             "except", "except_join_receiver", "except_join_handler",
                             "stop1", "stop2", "stop3", "clear"}

C10_OneConnection == Cardinality({t \in Threads : Connected(t)}) <= 1

(***************************************************************************)
(* C11.  A connect_spike call that finds _CONNECTOR set is rejected at     *)
(* its first statement: the caller opens no serial channel and starts no   *)
(* thread, and the handle, every connector's flags, recv_data and written  *)
(* frames, and every running thread are left as they were.                 *)
(***************************************************************************)
C11_SecondCallRejected ==
    /\ [][\A t \in Threads :
            (cpc[t] = "check" /\ cpc'[t] # "check" /\ CONNECTOR # None) =>
                /\ cpc'[t] = "rejected"
                /\ UNCHANGED << CONNECTOR, target, connVars, recvVars, handVars >>]_vars
    /\ [](\A t \in Threads : cpc[t] = "rejected" =>
            /\ ~opened[t] /\ ~running[t] /\ sent[t] = <<>>
            /\ rpc[t] = "off" /\ hpc[t] = "off")

\* a caller was rejected while the other caller's connection has its channel
\* open and its loops running
C11_Witness ==
    \E t \in Threads, u \in Threads :
        /\ t # u /\ cpc[t] = "rejected"
        /\ CONNECTOR = u /\ opened[u] /\ running[u] /\ started[u]

(***************************************************************************)
(* C12.  An accessor of Hub, Motor, ColorSensor, SonarSensor.get_distance  *)
(* or GyroSensor whose first statement finds _CONNECTOR unset raises at    *)
(* that statement: it returns nothing and nothing is written to any        *)
(* serial channel.                                                         *)
(***************************************************************************)
C12_AccessorRejectedWithoutConnection ==
    [][(probe.pc = "lookup" /\ CONNECTOR = None /\ probe' # probe) =>
            /\ probe'.pc = "done" /\ probe'.raised
            /\ probe'.result = <<>> /\ probe'.wrote = <<>>
            /\ sent' = sent]_vars

\* set_pwm was called after connect_spike had returned, and was rejected
C12_Witness ==
    /\ probe.op = "set_pwm" /\ probe.pc = "done" /\ probe.raised
    /\ probe.ctx = "user" /\ probe.back = "returned"
    /\ CONNECTOR = None /\ ncalls[MainThread] >= 1

(***************************************************************************)
(* Leaving connect_spike by an exception, and calling it again.            *)
(***************************************************************************)
\* KeyboardInterrupt in the main thread while it is inside connect_spike
\* with its _Connector constructed but not in the try block of run()
\* (lines 67-74 and 106-120, or the except clause, lines 126-133, where it
\* may be a second one): no except clause catches it and no finally clause
\* runs, so it leaves connect_spike
InterruptOutsideTry ==
    /\ cpc[MainThread] \in {"assign", "lookup", "run", "except", "except_join_receiver",
                            "except_join_handler", "stop1", "stop2", "stop3", "clear"}
    /\ interrupted' = TRUE
    /\ cpc' = [cpc EXCEPT ![MainThread] = "aborted"]
    /\ UNCHANGED << env, probe, feed, now, CONNECTOR, target, connVars, recvVars, handVars,
                    histVars >>

\* the calling code calls connect_spike again after an earlier call has
\* returned or raised; the history of the earlier call is forgotten
CallAgain(t) ==
    /\ t \in env.callers
    /\ cpc[t] \in {"returned", "rejected", "aborted"}
    /\ cpc' = [cpc EXCEPT ![t] = "check"]
    /\ ncalls' = [ncalls EXCEPT ![t] = 0]
    /\ lastFrame' = [lastFrame EXCEPT ![t] = "none"]
    /\ readyAt' = [readyAt EXCEPT ![t] = -1]
    /\ applied' = [applied EXCEPT ![t] = FALSE]
    /\ UNCHANGED << env, probe, feed, now, CONNECTOR, target, connVars, recvVars, handVars,
                    interrupted >>

NextTeardown ==
    \/ NextFacade
    \/ InterruptOutsideTry
    \/ \E t \in Threads : CallAgain(t)

\* the main thread connects again and again, and calls two accessors
InitTeardown ==
    /\ Machine([callers |-> {MainThread}, start |-> 0, horizon |-> FacadeHorizon,
                intervals |-> ShortInterval, pool |-> {FrameA, ShiftedA},
                feed |-> Unlimited,
                calls |-> {AccessorCallOf("get_time", 0, <<>>),
                           AccessorCallOf("set_pwm", 1, <<100>>)}])
    /\ probe = NoCall

SpecTeardown == InitTeardown /\ [][NextTeardown]_vars

(***************************************************************************)
(* C13.  Once connect_spike has been left after it had constructed a       *)
(* connection, by return or by an exception, _CONNECTOR is None: an        *)
(* accessor called then is rejected and the next connect_spike passes the  *)
(* test of line 64.                                                        *)
(***************************************************************************)
\* thread t has left connect_spike after constructing its _Connector
Left(t) == opened[t] /\ (cpc[t] \in {"returned", "aborted"}
                         \/ (cpc[t] = "accessor" /\ probe.back \in {"returned", "aborted"}))

C13_TornDownOnEveryExit ==
    /\ [](Left(MainThread) => CONNECTOR = None)
    /\ [][(Left(MainThread) /\ probe.pc = "lookup" /\ probe' # probe) => probe'.raised]_vars
    /\ [][(cpc[MainThread] = "check" /\ cpc'[MainThread] # "check") =>
            cpc'[MainThread] = "construct"]_vars

(***************************************************************************)
(* The receiver's processing of three frames in a row (lines 144-163),     *)
(* from the initial Observation Frame of line 101.                         *)
(***************************************************************************)
\* "f34AAAIAAAAAAAAAAAAAAAAAAAAAAAQI": time 2, selector 0, value 0x0408,
\* nibble 14 = XOR fold = OR fold
FrameA2 == << 102, 51, 52, 65, 65, 65, 73, 65, 65, 65, 65, 65, 65, 65, 65, 65,
              65, 65, 65, 65, 65, 65, 65, 65, 65, 65, 65, 65, 65, 65, 81, 73 >>
\* "f3IAAAMAAAAAAAAAAAAAAAAAAAAAAQEB": time 3, selector 1, value 0x0101,
\* nibble 2 = XOR fold, while the OR fold is 3
FrameXorOnly == << 102, 51, 73, 65, 65, 65, 77, 65, 65, 65, 65, 65, 65, 65, 65, 65,
                   65, 65, 65, 65, 65, 65, 65, 65, 65, 65, 65, 65, 65, 81, 69, 66 >>
\* "f3YAAAAAAAAAAAAAAAAAAAAAAAAAAgBA": time 0, selector 2, value 0x0040,
\* nibble 6 = XOR fold = OR fold
FrameC == << 102, 51, 89, 65, 65, 65, 65, 65, 65, 65, 65, 65, 65, 65, 65, 65,
             65, 65, 65, 65, 65, 65, 65, 65, 65, 65, 65, 65, 65, 103, 66, 65 >>
\* "f3cAAAAAAAAAAAAAAAAAAAAAAAAAAhAE": time 0, selector 2, value 0x1004,
\* nibble 7 = XOR fold = OR fold
FrameC2 == << 102, 51, 99, 65, 65, 65, 65, 65, 65, 65, 65, 65, 65, 65, 65, 65,
              65, 65, 65, 65, 65, 65, 65, 65, 65, 65, 65, 65, 65, 104, 65, 69 >>

SlotReads == {FrameA, FrameA2, FrameB, FrameXorOnly, FrameC, FrameC2}

\* three different frames arrive one after the other
InitSlots ==
    /\ Machine([callers |-> {}, start |-> 0, horizon |-> 0, intervals |-> {},
                pool |-> {}, feed |-> 0, calls |-> {}])
    /\ \E a \in SlotReads, b \in SlotReads, c \in SlotReads :
            /\ a # b /\ a # c /\ b # c
            /\ probe = [reads |-> << a, b, c >>, recv |-> Zeros(RecvLen), kinds |-> <<>>]

\* lines 144-163 on the next frame; an uncaught exception ends the thread
ReceiveNext ==
    /\ Len(probe.kinds) < Len(probe.reads)
    /\ IF probe.kinds = <<>> THEN TRUE ELSE ~Fatal(probe.kinds[Len(probe.kinds)])
    /\ LET o == FrameOutcome(probe.reads[Len(probe.kinds) + 1], probe.recv)
       IN  probe' = [probe EXCEPT !.recv = o.recv, !.kinds = Append(@, o.kind)]
    /\ UNCHANGED << env, feed, now, CONNECTOR, cpc, target, connVars, recvVars, handVars,
                    interrupted, histVars >>

SpecSlots == InitSlots /\ [][ReceiveNext]_vars

(***************************************************************************)
(* C14.  After the receiver has processed three frames that are valid      *)
(* under the documented parity and carry the selectors 0, 1 and 2 in any   *)
(* order, offsets 21, 23 and 25 of the Observation Frame hold the 2-byte   *)
(* payloads (offsets 22..23) of the frames that carried selector 0, 1 and  *)
(* 2, whatever their first 21 bytes were.                                  *)
(***************************************************************************)
DocumentedValid(buf) ==
    LET d == B64Decode(buf)
    IN  d.ok /\ Len(d.data) = 24 /\ d.data[2] % 16 = XorNibble(d.data)

C14_SlotRotation ==
    (/\ Len(probe.kinds) = 3
     /\ \A i \in 1..3 : DocumentedValid(probe.reads[i])
     /\ {B64Decode(probe.reads[i]).data[22] : i \in 1..3} = {0, 1, 2})
    => \A i \in 1..3 :
          LET d == B64Decode(probe.reads[i]).data
          IN  /\ probe.recv[21 + 2 * d[22] + 1] = d[23]
              /\ probe.recv[21 + 2 * d[22] + 2] = d[24]

(***************************************************************************)
(* send_command on its own (connector.py:243-254): one command code of the *)
(* table of lines 29-44 and one signed 32-bit value.                       *)
(***************************************************************************)
CommandCodes == {0, 1, 2, 3, 17, 18, 19, 33, 34, 35, 49, 50, 51, 65, 81}

CommandValues == {-2147483647 - 1, -2147483647, -65536, -129, -128, -50, -1, 0, 1,
                  127, 128, 255, 256, 65536, 2147483647}

InitCommand ==
    /\ Machine([callers |-> {}, start |-> 0, horizon |-> 0, intervals |-> {},
                pool |-> {}, feed |-> 0, calls |-> {}])
    /\ probe \in {[command |-> c, value |-> v, wrote |-> <<>>] :
                    c \in CommandCodes, v \in CommandValues}

\* line 254: the bytes handed to serial.write
SendCommand ==
    /\ probe.wrote = <<>>
    /\ probe' = [probe EXCEPT !.wrote = CommandFrame(probe.command, probe.value)]
    /\ UNCHANGED << env, feed, now, CONNECTOR, cpc, target, connVars, recvVars, handVars,
                    interrupted, histVars >>

SpecCommand == InitCommand /\ [][SendCommand]_vars

(***************************************************************************)
(* C15.  send_command writes exactly 7 bytes: 0x7f, a parity byte, the     *)
(* command code, and the value as 4 bytes; a decoder that reads byte 2 as  *)
(* the code and bytes 3..6 as a signed big-endian integer recovers the     *)
(* code and the signed value that were passed.                             *)
(***************************************************************************)
\* four bytes as a big-endian two's complement integer
SignedBigEndian(b) ==
    (IF b[1] >= 128 THEN b[1] - 256 ELSE b[1]) * 16777216
        + b[2] * 65536 + b[3] * 256 + b[4]

C15_CommandRoundTrip ==
    probe.wrote # <<>> =>
        /\ Len(probe.wrote) = 7
        /\ \A i \in 1..7 : probe.wrote[i] \in 0..255
        /\ probe.wrote[1] = 127
        /\ probe.wrote[3] = probe.command
        /\ SignedBigEndian(SubSeq(probe.wrote, 4, 7)) = probe.value

C15_Witness ==
    /\ probe.command = 17 /\ probe.value = -50
    /\ Len(probe.wrote) = 7
    /\ SubSeq(probe.wrote, 3, 7) = << 17, 255, 255, 255, 206 >>

(***************************************************************************)
(* C16.  In every command frame written by send_command, byte 1 is the     *)
(* XOR of bytes 2..6 of the frame, as a full byte.                         *)
(***************************************************************************)
C16_OutboundParityIsXor ==
    probe.wrote # <<>> => probe.wrote[2] = FoldXor(SubSeq(probe.wrote, 3, 7), 0)

(***************************************************************************)
(* GyroSensor.get_angle and get_angler_velocity (connector.py:349-365) on  *)
(* an Observation Frame whose bytes 18..20 were packed by the peer as      *)
(* line 18 documents: angle and speed, 12 bits each.                       *)
(***************************************************************************)
GyroValues == {-2048, -2047, -1025, -1024, -200, -1, 0, 1, 300, 1023, 1024, 2047}

\* the three bytes that carry angle in the high and rate in the low 12 bits
GyroPack(angle, rate) ==
    LET v == ((angle + 4096) % 4096) * 4096 + ((rate + 4096) % 4096)
    IN  << v \div 65536, (v \div 256) % 256, v % 256 >>

InitGyro ==
    /\ Machine([callers |-> {}, start |-> 0, horizon |-> 0, intervals |-> {},
                pool |-> {}, feed |-> 0, calls |-> {}])
    /\ probe \in {[angle |-> a, rate |-> r,
                   recv |-> SliceAssign(Zeros(RecvLen), 18, 21, GyroPack(a, r)),
                   got_angle |-> <<>>, got_rate |-> <<>>] :
                    a \in GyroValues, r \in GyroValues}

ReadAngle ==
    /\ probe.got_angle = <<>>
    /\ probe' = [probe EXCEPT !.got_angle = << get_angle(probe.recv) >>]
    /\ UNCHANGED << env, feed, now, CONNECTOR, cpc, target, connVars, recvVars, handVars,
                    interrupted, histVars >>

ReadRate ==
    /\ probe.got_rate = <<>>
    /\ probe' = [probe EXCEPT !.got_rate = << get_angler_velocity(probe.recv) >>]
    /\ UNCHANGED << env, feed, now, CONNECTOR, cpc, target, connVars, recvVars, handVars,
                    interrupted, histVars >>

SpecGyro == InitGyro /\ [][ReadAngle \/ ReadRate]_vars

(***************************************************************************)
(* C17.  When bytes 18..20 of the Observation Frame hold an angle and a    *)
(* rate of the signed 12-bit range, two's complement, angle in the high    *)
(* 12 bits, get_angle returns the angle and get_angler_velocity the rate.  *)
(***************************************************************************)
C17_GyroPacking ==
    /\ Len(probe.recv) = RecvLen
    /\ \A i \in 1..RecvLen : probe.recv[i] \in 0..255
    /\ probe.got_angle # <<>> => probe.got_angle = << probe.angle >>
    /\ probe.got_rate # <<>> => probe.got_rate = << probe.rate >>

C17_Witness ==
    /\ probe.angle = -200 /\ probe.rate = 300
    /\ SubSeq(probe.recv, 19, 21) = << 243, 129, 44 >>
    /\ probe.got_angle = << -200 >> /\ probe.got_rate = << 300 >>

(***************************************************************************)
(* _recv_report on its own (connector.py:167-203), read by read, with the  *)
(* index of every store into the buffer checked as bytearray does.         *)
(***************************************************************************)
RECURSIVE Store(_, _)
\* mutant: '/' does not pass the filter
StoreNoSlash(st, bytes) ==
    LET f == SelectSeq(bytes, LAMBDA v : IsAlphabet(v) /\ v # 47)
        n == Min(Len(f), Len(st.buffer) - st.size)
    IN  [buffer |-> [i \in 1..Len(st.buffer) |->
                        IF st.size < i /\ i <= st.size + n THEN f[i - st.size]
                        ELSE st.buffer[i]],
         size |-> st.size + n,
         error |-> Len(f) > n]

\* buffer[size] = v; size += 1 for the bytes that pass the filter (lines
\* 186-189 and 198-201); error is the IndexError of a store at len(buffer)
Store(st, bytes) ==
    IF bytes = <<>> \/ st.error THEN st
    ELSE IF ~IsAlphabet(Head(bytes)) THEN Store(st, Tail(bytes))
    ELSE IF st.size >= Len(st.buffer) THEN [st EXCEPT !.error = TRUE]
    ELSE Store([st EXCEPT !.buffer[st.size + 1] = Head(bytes), !.size = @ + 1], Tail(bytes))

\* 31 bytes and then the marker's first byte
MarkerLast == [i \in 1..BufferLen |-> IF i = BufferLen THEN Magic0 ELSE 65]
\* a lone 'f', then the marker, then bytes on both sides of every edge of
\* the filter: . / 0 9 : @ A Z [ ` a z { + = , < >
EdgeBytes == << 102, 65, 102, 51, 46, 47, 48, 57, 58, 64, 65, 90, 91, 96, 97, 122,
                123, 43, 61, 44, 60, 62, 0, 255, 13, 10, 32, 102, 51, 65, 66, 67 >>
\* FrameA with CR LF in the middle
BrokenA == SubSeq(FrameA, 1, 10) \o << 13, 10 >> \o SubSeq(FrameA, 11, BufferLen - 2)
\* the marker and then line noise only
MarkerNoise == [i \in 1..BufferLen |-> IF i = 1 THEN Magic0 ELSE IF i = 2 THEN Magic1 ELSE 10]

FirstReads == {FrameA, NoMarker, ShiftedA, MarkerLast, EdgeBytes, BrokenA, MarkerNoise}

\* what a follow-up read of n bytes may return
FollowReads(n) ==
    {SubSeq(f, 1, n) : f \in {FrameA, EdgeBytes, MarkerNoise}}
        \cup {SubSeq(f, BufferLen - n + 1, BufferLen) : f \in {FrameA, EdgeBytes}}

\* first and last are history: the first read of the call, and the bytes the
\* last read handed to the copy loop
NoSync == [buffer |-> Zeros(BufferLen), size |-> 0, pc |-> "first", reads |-> 0,
           first |-> <<>>, last |-> <<>>]

InitSync ==
    /\ Machine([callers |-> {}, start |-> 0, horizon |-> 0, intervals |-> {},
                pool |-> {}, feed |-> 0, calls |-> {}])
    /\ probe = NoSync

\* lines 169-189
SyncFirstRead ==
    /\ probe.pc = "first"
    /\ \E buf \in FirstReads :
        LET offset == FindMarker(buf, 0)
            st == Store([buffer |-> probe.buffer, size |-> 0, error |-> FALSE],
                        SubSeq(buf, offset + 1, Len(buf)))
        IN  probe' = IF offset < 0
                     THEN [probe EXCEPT !.pc = "false", !.reads = 1, !.first = buf]
                     ELSE [buffer |-> st.buffer, size |-> st.size, reads |-> 1,
                           first |-> buf, last |-> SubSeq(buf, offset + 1, Len(buf)),
                           pc |-> IF st.error THEN "index_error"
                                  ELSE IF st.size < Len(st.buffer) THEN "more" ELSE "true"]
    /\ UNCHANGED << env, feed, now, CONNECTOR, cpc, target, connVars, recvVars, handVars,
                    interrupted, histVars >>

\* lines 192-201
SyncMoreRead ==
    /\ probe.pc = "more"
    /\ probe.reads < MaxReads
    /\ \E buf \in FollowReads(Len(probe.buffer) - probe.size) :
        LET st == Store([buffer |-> probe.buffer, size |-> probe.size, error |-> FALSE], buf)
        IN  probe' = [buffer |-> st.buffer, size |-> st.size, reads |-> probe.reads + 1,
                      first |-> probe.first, last |-> buf,
                      pc |-> IF st.error THEN "index_error"
                             ELSE IF st.size < Len(st.buffer) THEN "more" ELSE "true"]
    /\ UNCHANGED << env, feed, now, CONNECTOR, cpc, target, connVars, recvVars, handVars,
                    interrupted, histVars >>

\* lines 172-173 and 194-195: the read returned fewer bytes than asked for
SyncTimeout ==
    /\ probe.pc \in {"first", "more"}
    /\ probe' = [probe EXCEPT !.pc = "timeout"]
    /\ UNCHANGED << env, feed, now, CONNECTOR, cpc, target, connVars, recvVars, handVars,
                    interrupted, histVars >>

\* line 139: the next call gets the same bytearray
SyncAgain ==
    /\ probe.pc \in {"true", "false"}
    /\ probe' = [probe EXCEPT !.pc = "first", !.size = 0, !.reads = 0,
                               !.first = <<>>, !.last = <<>>]
    /\ UNCHANGED << env, feed, now, CONNECTOR, cpc, target, connVars, recvVars, handVars,
                    interrupted, histVars >>

SpecSync == InitSync /\ [][SyncFirstRead \/ SyncMoreRead \/ SyncTimeout \/ SyncAgain]_vars

(***************************************************************************)
(* C18.  _recv_report reports success only with exactly 32 bytes of the    *)
(* base64 alphabet assembled in the buffer; otherwise it reports failure   *)
(* or raises the timeout error.  It never stores outside the buffer.       *)
(***************************************************************************)
Base64Chars == (65..90) \cup (97..122) \cup (48..57) \cup {43, 47, 61}

C18_FrameLength ==
    /\ probe.pc \in {"first", "more", "true", "false", "timeout"}
    /\ Len(probe.buffer) = 32
    /\ probe.size \in 0..32
    /\ probe.pc = "true" =>
        /\ probe.size = 32
        /\ \A i \in 1..32 : probe.buffer[i] \in Base64Chars

C18_Witness ==
    /\ probe.pc = "true" /\ probe.reads = 3
    /\ probe.buffer[1] = 102 /\ probe.buffer[2] = 65 /\ probe.buffer[3] = 102

(***************************************************************************)
(* The code outside connect_spike and the handler call the commands of     *)
(* Motor (connector.py:290-301) on every port.                             *)
(***************************************************************************)
InitMotor ==
    /\ Machine([callers |-> {MainThread}, start |-> 0, horizon |-> FacadeHorizon,
                intervals |-> ShortInterval, pool |-> {FrameA, ShiftedA},
                feed |-> Unlimited, calls |-> MotorCommandCalls])
    /\ probe = NoCall

SpecMotor == InitMotor /\ [][NextFacade]_vars

(***************************************************************************)
(* C19.  On port p, set_pwm(power) writes exactly one command frame, with  *)
(* code (p+1)*16+1 and value min(max(power,-128),127); set_brake writes    *)
(* code (p+1)*16+2 with value 0 or 1; reset_count writes code (p+1)*16+3   *)
(* with value 0.  None of them changes the Observation Frame.              *)
(***************************************************************************)
MotorOps == {"set_pwm", "set_brake", "reset_count"}

\* the code and the value the claim states for a call
MotorCode(p) ==
    (p.port + 1) * 16 + (CASE p.op = "set_pwm" -> 1 [] p.op = "set_brake" -> 2
                           [] p.op = "reset_count" -> 3)
MotorValue(p) ==
    CASE p.op = "set_pwm" -> (IF p.arg[1] < -128 THEN -128
                              ELSE IF p.arg[1] > 127 THEN 127 ELSE p.arg[1])
      [] p.op = "set_brake" -> (IF p.arg[1] # 0 THEN 1 ELSE 0)
      [] p.op = "reset_count" -> 0

C19_MotorCommands ==
    /\ [][(probe.op \in MotorOps /\ probe.pc = "lookup" /\ CONNECTOR # None
           /\ probe' # probe) =>
            /\ probe'.pc = "done" /\ ~probe'.raised /\ probe'.result = <<>>
            /\ Len(probe'.wrote) = 1
            /\ Len(probe'.wrote[1]) = 7
            /\ probe'.wrote[1][1] = 127
            /\ probe'.wrote[1][3] = MotorCode(probe)
            /\ SignedBigEndian(SubSeq(probe'.wrote[1], 4, 7)) = MotorValue(probe)
            /\ sent' = [sent EXCEPT ![CONNECTOR] =
                            Append(@, [by |-> "facade", frame |-> probe'.wrote[1]])]
            /\ recv_data' = recv_data]_vars
    /\ []((probe.op \in MotorOps /\ probe.pc = "done" /\ ~probe.raised) =>
            Len(probe.wrote) = 1)

C19_Witness ==
    /\ probe.op = "set_pwm" /\ probe.port = 2 /\ probe.arg = << 1000 >>
    /\ probe.ctx = "handler" /\ probe.pc = "done"
    /\ Len(probe.wrote) = 1
    /\ SubSeq(probe.wrote[1], 3, 7) = << 49, 0, 0, 0, 127 >>
    /\ recv_data[MainThread] # Zeros(RecvLen)

(***************************************************************************)
(* The handler and the code outside connect_spike call the readings of     *)
(* ColorSensor (connector.py:304-331) while frames of every sensor mode    *)
(* arrive.                                                                 *)
(***************************************************************************)
\* "f3cAAAAAAAAAAAAAAAAEAQIAAAAAAAAA": sensor bytes 4, 1, 2 (rgb 3, 0, 1)
FrameRgbDim == << 102, 51, 99, 65, 65, 65, 65, 65, 65, 65, 65, 65, 65, 65, 65, 65,
                  65, 65, 65, 69, 65, 81, 73, 65, 65, 65, 65, 65, 65, 65, 65, 65 >>

InitColor ==
    /\ Machine([callers |-> {MainThread}, start |-> 0, horizon |-> FacadeHorizon,
                intervals |-> ShortInterval,
                pool |-> {FrameReflect, FrameAmbient, FrameRgbDim, ShiftedA},
                feed |-> Unlimited, calls |-> ColorCalls])
    /\ probe = NoCall

SpecColor == InitColor /\ [][NextFacade]_vars

(***************************************************************************)
(* C20.  get_brightness, get_ambient and get_raw_color send the command    *)
(* 0x41 with mode 2, 0 and 3 exactly when that mode is not the one the     *)
(* sensor slot (bytes 14..16 of the Observation Frame) shows as they       *)
(* decide, and nothing otherwise.  get_raw_color returns the three bytes   *)
(* minus 1, not below 0; get_brightness and get_ambient return byte 14.    *)
(***************************************************************************)
\* the mode a sensor slot shows: the three bytes of rgb are sent one up and
\* are never 0; the other modes send byte 15 as 0 and the mode in byte 16
ShownMode(recv) ==
    IF recv[16] # 0 /\ recv[17] # 0 THEN 3
    ELSE IF recv[16] = 0 /\ recv[17] \in {0, 1, 2} THEN recv[17]
    ELSE -1

\* the accessor in progress ends its test of the mode in this step
Decides ==
    /\ probe.op \in ColorOps
    /\ probe.pc \in {"mode", "mode16"}
    /\ probe'.pc \in {"read", "red"}

C20_ModeAware ==
    /\ [][Decides =>
            IF ShownMode(recv_data[probe.conn]) # ModeOf(probe.op)
            THEN /\ Len(probe'.wrote) = 1
                 /\ probe'.wrote[1][3] = 65
                 /\ SignedBigEndian(SubSeq(probe'.wrote[1], 4, 7)) = ModeOf(probe.op)
                 /\ sent' = [sent EXCEPT ![probe.conn] =
                                Append(@, [by |-> "facade", frame |-> probe'.wrote[1]])]
            ELSE probe'.wrote = <<>> /\ sent' = sent]_vars
    /\ [][(probe.pc = "read" /\ probe'.pc = "done" /\ ~probe'.raised) =>
            probe'.result = << recv_data[CONNECTOR][15] >>]_vars
    /\ [][(probe.pc \in {"red", "green", "blue"} /\ probe' # probe /\ ~probe'.raised) =>
            LET b == recv_data[probe.conn][CASE probe.pc = "red" -> 15
                                             [] probe.pc = "green" -> 16
                                             [] probe.pc = "blue" -> 17]
            IN  probe'.result = Append(probe.result, IF b >= 1 THEN b - 1 ELSE 0)]_vars
    /\ []((probe.op = "get_raw_color" /\ probe.pc = "done" /\ ~probe.raised) =>
            Len(probe.result) = 3)

(***************************************************************************)
(* Failures inside the two threads: a frame that base64 cannot decode      *)
(* (connector.py:144-148) and a handler that raises (lines 236-241).       *)
(***************************************************************************)
\* "f3MA=AEAAAAAAAAAAAAAAAAAAAAAAAAC": FrameA with '=' in place of its fifth
\* character; b64decode raises binascii.Error ("Incorrect padding")
FramePadded == [FrameA EXCEPT ![5] = 61]

\* mutant: the exception of the handler is raised in the thread that called
\* connect_spike
HandlerRaisePropagates(t) ==
    /\ hpc[t] = "handler"
    /\ hpc' = [hpc EXCEPT ![t] = "failed"]
    /\ cpc' = [cpc EXCEPT ![t] = "raised"]
    /\ HandlerFinally(target[t])
    /\ UNCHANGED << env, probe, feed, now, CONNECTOR, target, interval, opened, recv_data, sent,
                    recvVars, previous_time, current_time, process_time, interrupted,
                    histVars >>

\* lines 236-241: self.handler() raises an exception that is not
\* StopIteration; the except clause does not match, the finally clause
\* clears both flags and the exception ends handler_thread, where the
\* threading module reports it; run() sees the thread end (line 124)
HandlerRaise(t) ==
    /\ hpc[t] = "handler"
    /\ hpc' = [hpc EXCEPT ![t] = "failed"]
    /\ HandlerFinally(target[t])
    /\ UNCHANGED << env, probe, feed, now, CONNECTOR, cpc, target, interval, opened, recv_data, sent,
                    recvVars, previous_time, current_time, process_time, interrupted,
                    histVars >>

NextFailing == Next \/ \E t \in Threads : HandlerRaise(t)

\* the main thread calls; a frame with misplaced padding may arrive and the
\* handler may raise
InitFailing == InitWith([callers |-> {MainThread}, start |-> 0, horizon |-> FrameHorizon,
                         intervals |-> ShortInterval,
                         pool |-> {FrameA, ShiftedA, FramePadded}, feed |-> Unlimited,
                         calls |-> {}])

SpecFailing == InitFailing /\ [][NextFailing]_vars

(***************************************************************************)
(* C21.  When the receiver leaves an assembled frame that base64 cannot    *)
(* decode, the Observation Frame and both flags are as before and the      *)
(* receiver is back at the head of its loop.                               *)
(***************************************************************************)
C21_DecodeErrorIsDiscarded ==
    [][\A t \in Threads :
        (rpc[t] = "frame" /\ rpc'[t] # "frame" /\ ~B64Decode(buffer[t]).ok)
        => /\ rpc'[t] = "loop"
           /\ recv_data' = recv_data
           /\ running' = running
           /\ started' = started]_vars

(***************************************************************************)
(* C22.  The first read of _recv_report is discarded, with the buffer as   *)
(* it was and no follow-up read, exactly when it holds no complete marker  *)
(* and does not end with the marker's first byte.  A read that ends with   *)
(* 0x66 is kept: that byte is stored and follow-up reads complete the      *)
(* frame.  A frame reported to the caller starts with 0x66, and with the   *)
(* whole marker when the first read held it.                               *)
(***************************************************************************)
HasMarker(buf) ==
    \E i \in 1..(Len(buf) - 1) : buf[i] = Magic0 /\ buf[i + 1] = Magic1

EndsWithMagic0(buf) == buf # <<>> /\ buf[Len(buf)] = Magic0

C22_SyncOnMarker ==
    [][/\ (probe.pc = "first" /\ probe'.pc \notin {"first", "timeout"}) =>
            IF HasMarker(probe'.first) \/ EndsWithMagic0(probe'.first)
            THEN /\ probe'.pc \in {"more", "true"}
                 /\ probe'.size >= 1
                 /\ probe'.buffer[1] = Magic0
            ELSE /\ probe'.pc = "false"
                 /\ probe'.buffer = probe.buffer
                 /\ probe'.size = 0
       /\ probe'.pc = "true" =>
            /\ probe'.buffer[1] = Magic0
            /\ HasMarker(probe'.first) => probe'.buffer[2] = Magic1]_vars

\* a marker that straddles two reads is put together again
C22_Witness ==
    /\ probe.pc = "true"
    /\ probe.first = MarkerLast
    /\ probe.buffer = FrameA

\* the claim as stated: a read is kept only when it holds the complete marker
C22_OnlyCompleteMarker ==
    /\ probe.pc \in {"more", "true"} => HasMarker(probe.first)
    /\ probe.pc = "true" => (probe.buffer[1] = Magic0 /\ probe.buffer[2] = Magic1)

(***************************************************************************)
(* C23.  Every read of _recv_report that is kept appends to the buffer,    *)
(* in their order of arrival, exactly those of its bytes from the marker   *)
(* position on that are digits, letters, '+', '/' or '=', and leaves the   *)
(* bytes stored before as they were.                                       *)
(***************************************************************************)
\* the read just made appended exactly its bytes that are in `chars`
CopiesExactly(chars) ==
    (probe.pc \in {"first", "more"} /\ probe'.pc \in {"more", "true"}) =>
        LET IsIn(v) == v \in chars
            kept == SelectSeq(probe'.last, IsIn)
        IN  /\ probe'.size = probe.size + Len(kept)
            /\ \A i \in 1..Len(probe.buffer) :
                  probe'.buffer[i] = IF probe.size < i /\ i <= probe.size + Len(kept)
                                     THEN kept[i - probe.size]
                                     ELSE probe.buffer[i]

C23_AlphabetFilter == [][CopiesExactly(Base64Chars)]_vars

\* a follow-up read with '.' skipped and '/' stored
C23_Witness ==
    /\ probe.pc \in {"more", "true"}
    /\ probe.reads >= 2
    /\ \E i \in 1..Len(probe.last) : probe.last[i] = 46
    /\ \E i \in 1..Len(probe.last) : probe.last[i] = 47
    /\ \E i \in 1..probe.size : probe.buffer[i] = 47

\* the claim as stated: digits, letters, '+' and '=' only
C23_FilterWithoutSlash == [][CopiesExactly(Base64Chars \ {47})]_vars

(***************************************************************************)
(* The receiver's processing of frames with every kind of selector and     *)
(* payload length (lines 144-163), three in a row.                         *)
(***************************************************************************)
\* "f3sAAAAAAAAAAAAAAAAAAAAAAAAAAwAI": time 0, selector 3, value 0x0008,
\* nibble 11 = XOR fold = OR fold
FrameSel3 == << 102, 51, 115, 65 >> \o [i \in 1..24 |-> 65] \o << 65, 119, 65, 73 >>
\* "f3IAAAAAAAAAAAAAAAAAAAAAAAAAAAI=": one byte of padding, so 23 bytes are
\* decoded: selector 0 and the single payload byte 0x02; nibble 2 = XOR fold
\* = OR fold
FrameShort == << 102, 51, 73, 65 >> \o [i \in 1..24 |-> 65] \o << 65, 65, 73, 61 >>

EffectReads == {FrameA, FrameB, FrameXorOnly, FrameC2, FrameSel3, FrameShort}

InitEffect ==
    /\ Machine([callers |-> {}, start |-> 0, horizon |-> 0, intervals |-> {},
                pool |-> {}, feed |-> 0, calls |-> {}])
    /\ \E a \in EffectReads, b \in EffectReads, c \in EffectReads :
            /\ a # b /\ a # c /\ b # c
            /\ probe = [reads |-> << a, b, c >>, recv |-> Zeros(RecvLen), kinds |-> <<>>]

SpecEffect == InitEffect /\ [][ReceiveNext]_vars

(***************************************************************************)
(* C24.  A frame of 24 bytes with the documented parity is applied: bytes  *)
(* 0..20 of the Observation Frame become the frame's, the slot named by a  *)
(* selector in {0,1,2} becomes the frame's payload, every other slot keeps *)
(* its value, and `ready` is set.                                          *)
(***************************************************************************)
FrameEffect(old, new, d, kind) ==
    /\ kind = "applied"
    /\ Len(old) = RecvLen /\ Len(new) = RecvLen
    /\ \A i \in 1..PrefixLen : new[i] = d[i]
    /\ \A s \in 0..2 :
          IF d[PrefixLen + 1] = s
          THEN new[PrefixLen + 2 * s + 1] = d[PrefixLen + 2]
               /\ new[PrefixLen + 2 * s + 2] = d[PrefixLen + 3]
          ELSE new[PrefixLen + 2 * s + 1] = old[PrefixLen + 2 * s + 1]
               /\ new[PrefixLen + 2 * s + 2] = old[PrefixLen + 2 * s + 2]

C24_FrameEffect ==
    [][LET k == Len(probe.kinds)
       IN  (Len(probe'.kinds) = k + 1 /\ DocumentedValid(probe.reads[k + 1])) =>
              FrameEffect(probe.recv, probe'.recv, B64Decode(probe.reads[k + 1]).data,
                          probe'.kinds[k + 1])]_vars

(***************************************************************************)
(* C28.  The Observation Frame has 27 bytes at connection start and after  *)
(* every frame the receiver has processed.                                 *)
(***************************************************************************)
C28_FixedLength == Len(probe.recv) = RecvLen

(***************************************************************************)
(* C25.  Once the receiver thread has ended, by whatever path, both flags  *)
(* of its connection are false, and they stay false; once the handler      *)
(* thread has ended, `running` is false.                                   *)
(***************************************************************************)
C25_FlagsClearedOnTermination ==
    \A t \in Threads :
        /\ rpc[t] = "done" => (~running[target[t]] /\ ~started[target[t]])
        /\ HandlerEnded(t) => ~running[target[t]]

\* the handler raised, and then the receiver met a frame it could not decode
C25_Witness ==
    /\ rpc[MainThread] = "done"
    /\ lastFrame[MainThread] = "decode_error"
    /\ hpc[MainThread] = "failed"

(***************************************************************************)
(* C27.  An exception of the handler other than StopIteration is not       *)
(* recovered by the loop of _run_handler: the finally clause clears both   *)
(* flags and the handler thread ends for good.  The exception stays in     *)
(* that thread: the step changes nothing of the thread that called         *)
(* connect_spike, which is never left by an exception of the handler.      *)
(***************************************************************************)
C27_HandlerFailureStaysInThread ==
    [][\A t \in Threads :
        /\ (hpc[t] = "handler" /\ hpc'[t] = "failed") =>
              /\ ~running'[target[t]] /\ ~started'[target[t]]
              /\ cpc' = cpc /\ CONNECTOR' = CONNECTOR /\ sent' = sent
        /\ hpc[t] = "failed" => (hpc'[t] = "failed" /\ cpc'[t] # "raised")]_vars

\* connect_spike has returned normally after the handler raised, with the
\* handle cleared and no stop command written
C27_Witness ==
    /\ hpc[MainThread] = "failed"
    /\ cpc[MainThread] = "returned"
    /\ CONNECTOR = None
    /\ ~interrupted
    /\ \A c \in Threads : sent[c] = <<>>

\* the claim as stated: after a failure of the handler connect_spike does
\* not return normally
C27_FailureReachesCaller ==
    \A t \in Threads : hpc[t] = "failed" => cpc[t] # "returned"

(***************************************************************************)
(* Line noise after the marker (connector.py:192-201): the inner loop of   *)
(* _recv_report reads until the buffer is full and tests nothing else.     *)
(***************************************************************************)
\* a follow-up read returned the bytes asked for and the filter skipped every
\* one of them: size is what it was and the loop reads again.  lastFrame
\* records the read, so that it is a step of the receiver and not a stutter
RecvNoise(t) ==
    /\ rpc[t] = "more"
    /\ feed # 0
    /\ feed' = IF feed > 0 THEN feed - 1 ELSE feed
    /\ lastFrame' = [lastFrame EXCEPT ![t] = IF @ = "noise" THEN "noise_again" ELSE "noise"]
    /\ UNCHANGED << env, probe, now, CONNECTOR, cpc, target, connVars, recvVars, handVars,
                    interrupted, readyAt, applied, ncalls >>

NextNoise == Next \/ \E t \in Threads : RecvNoise(t)

\* as Fairness, but of a serial read no more is taken than that it returns:
\* with bytes that are stored, with bytes that are all skipped, or by timeout
FairnessNoise ==
    /\ WF_vars(Tick)
    /\ WF_vars(Caller(MainThread))
    /\ WF_vars(Handler(MainThread))
    /\ WF_vars(RecvLoop(MainThread))
    /\ WF_vars(RecvFirstRead(MainThread) \/ RecvMoreRead(MainThread)
                    \/ RecvNoise(MainThread) \/ RecvTimeout(MainThread))
    /\ []<>(rpc[MainThread] # "frame")

FairNoiseSpec == InitFair /\ [][NextNoise]_vars /\ FairnessNoise

(***************************************************************************)
(* C26.  Once `running` is false while the receiver thread is alive, the   *)
(* receiver thread eventually ends, whatever bytes the reads return.       *)
(***************************************************************************)
C26_ReceiverStops ==
    (rpc[MainThread] \notin {"off", "done"} /\ ~running[target[MainThread]])
        ~> (rpc[MainThread] = "done")

====
